---------------------------- MODULE Spec2Model ----------------------------
(***************************************************************************)
(* Model of the text-to-quotation pipeline of booked_app:                  *)
(*   - lib/text/sentence-splitter (src/unnamed/part_010)                   *)
(*   - app/(capture)/ocr-result.tsx   (OCR result screen, candidate set)   *)
(*   - app/(capture)/manual-extract.tsx (drag selection of text lines)     *)
(*                                                                         *)
(* A JavaScript string is modelled as a sequence of characters, each       *)
(* character a one-character TLA+ string (the two-byte punctuation of the  *)
(* source is named by its code point).                                     *)
(***************************************************************************)
EXTENDS Integers, Sequences, FiniteSets, TLC

(***************************************************************************)
(* Bounds of the model.                                                    *)
(***************************************************************************)
\* number of pieces an input text of the sentence splitter is built from
MaxPieces == 4
\* number of region extractions (handleExtractSelection) of one behaviour
MaxManual == 1
\* the last value of the clock
MaxClock == 1

(***************************************************************************)
(* Characters and string primitives (String.prototype.trim, replace,       *)
(* split, includes) as they act on the characters of the model.            *)
(***************************************************************************)
NL == "\n"
SP == " "

\* \s of a JavaScript regular expression, restricted to the model's characters
Whitespace == {SP, NL}

\* the character class of SENTENCE_ENDINGS and of the test in the split loop
TerminalChars == {".", "!", "?", "U+3002", "U+FF01", "U+FF1F"}

\* \w restricted to the letters that occur in the model
WordChars == {"a", "b", "c", "P", "A", "R", "G", "H"}

\* the punctuation the character class of cleanSentence keeps
KeptPunct == {".", ",", "!", "?", ";", ":", "'", "\"", "(", ")", "[", "]",
              "{", "}", "~", "@", "#", "$", "%", "&", "*", "-", "_", "=",
              "+", "/", "\\", "<", ">"}

Rep(c, n) == [i \in 1..n |-> c]

RECURSIVE Flatten(_)
Flatten(ss) == IF ss = <<>> THEN <<>> ELSE Head(ss) \o Flatten(Tail(ss))

\* index of the first non-whitespace character at or after i (Len(s)+1 if none)
RECURSIVE SkipWs(_, _)
SkipWs(s, i) ==
  IF i > Len(s) THEN i
  ELSE IF s[i] \in Whitespace THEN SkipWs(s, i + 1) ELSE i

\* index of the last non-whitespace character at or before i (0 if none)
RECURSIVE SkipWsBack(_, _)
SkipWsBack(s, i) ==
  IF i < 1 THEN 0
  ELSE IF s[i] \in Whitespace THEN SkipWsBack(s, i - 1) ELSE i

\* String.prototype.trim
Trim(s) ==
  LET f == SkipWs(s, 1)
      l == SkipWsBack(s, Len(s))
  IN  IF f > l THEN <<>> ELSE SubSeq(s, f, l)

\* s.replace(/\s+/g, ' ')
RECURSIVE CollapseFrom(_, _)
CollapseFrom(s, i) ==
  IF i > Len(s) THEN <<>>
  ELSE IF s[i] \in Whitespace
       THEN <<SP>> \o CollapseFrom(s, SkipWs(s, i))
       ELSE <<s[i]>> \o CollapseFrom(s, i + 1)

CollapseWs(s) == CollapseFrom(s, 1)

\* pat occurs in s at index i
MatchAt(s, i, pat) ==
  /\ i + Len(pat) - 1 <= Len(s)
  /\ SubSeq(s, i, i + Len(pat) - 1) = pat

\* s.replace(/pat/g, rep) for a literal, non-empty pat
RECURSIVE ReplaceFrom(_, _, _, _)
ReplaceFrom(s, i, pat, rep) ==
  IF i > Len(s) THEN <<>>
  ELSE IF MatchAt(s, i, pat)
       THEN rep \o ReplaceFrom(s, i + Len(pat), pat, rep)
       ELSE <<s[i]>> \o ReplaceFrom(s, i + 1, pat, rep)

ReplaceAll(s, pat, rep) == ReplaceFrom(s, 1, pat, rep)

\* index after the run of newlines that starts at i
RECURSIVE SkipNl(_, _)
SkipNl(s, i) ==
  IF i > Len(s) THEN i
  ELSE IF s[i] = NL THEN SkipNl(s, i + 1) ELSE i

\* s.replace(/\n{2,}/g, rep)
RECURSIVE ReplaceNlRunsFrom(_, _, _)
ReplaceNlRunsFrom(s, i, rep) ==
  IF i > Len(s) THEN <<>>
  ELSE IF s[i] = NL /\ SkipNl(s, i) - i >= 2
       THEN rep \o ReplaceNlRunsFrom(s, SkipNl(s, i), rep)
       ELSE <<s[i]>> \o ReplaceNlRunsFrom(s, i + 1, rep)

ReplaceNlRuns(s, rep) == ReplaceNlRunsFrom(s, 1, rep)

\* s.split(c) for a one-character separator: the pieces, empty ones included
RECURSIVE SplitOnFrom(_, _, _, _)
SplitOnFrom(s, i, c, cur) ==
  IF i > Len(s) THEN <<cur>>
  ELSE IF s[i] = c
       THEN <<cur>> \o SplitOnFrom(s, i + 1, c, <<>>)
       ELSE SplitOnFrom(s, i + 1, c, Append(cur, s[i]))

SplitOn(s, c) == SplitOnFrom(s, 1, c, <<>>)

\* String.prototype.includes
Includes(s, t) == \E i \in 1..(Len(s) + 1) : MatchAt(s, i, t)

(***************************************************************************)
(* lib/text/sentence-splitter                                              *)
(***************************************************************************)
\* the placeholder '<<PARAGRAPH>>' of splitIntoSentences
PARAGRAPH == <<"<", "<", "P", "A", "R", "A", "G", "R", "A", "P", "H", ">", ">">>

\* the length below which a sentence is dropped
MIN_SENTENCE_LENGTH == 5

\* paragraph.split(SENTENCE_ENDINGS): SENTENCE_ENDINGS = /([.!?...])\s*/g has a
\* capture group, so the matched terminal character is kept as a part of
\* its own and the whitespace that follows it (\s*, possibly none) is dropped
RECURSIVE SplitEndingsFrom(_, _, _)
SplitEndingsFrom(s, i, cur) ==
  IF i > Len(s) THEN <<cur>>
  ELSE IF s[i] \in TerminalChars
       THEN <<cur, <<s[i]>>>> \o SplitEndingsFrom(s, SkipWs(s, i + 1), <<>>)
       ELSE SplitEndingsFrom(s, i + 1, Append(cur, s[i]))

SENTENCE_ENDINGS_split(s) == SplitEndingsFrom(s, 1, <<>>)

\* /^[.!?...]$/.test(part)
IsEndingPart(part) == Len(part) = 1 /\ part[1] \in TerminalChars

\* the loop over parts (lines 45-64): the sentences of one paragraph
RECURSIVE CollectSentences(_, _, _)
CollectSentences(parts, i, currentSentence) ==
  IF i > Len(parts)
  THEN IF Len(Trim(currentSentence)) > 0 THEN <<Trim(currentSentence)>> ELSE <<>>
  ELSE IF IsEndingPart(parts[i])
       THEN (IF Len(Trim(currentSentence \o parts[i])) > 0
             THEN <<Trim(currentSentence \o parts[i])>> ELSE <<>>)
            \o CollectSentences(parts, i + 1, <<>>)
       ELSE CollectSentences(parts, i + 1, currentSentence \o parts[i])

ParagraphSentences(paragraph) ==
  IF Len(Trim(paragraph)) = 0 THEN <<>>
  ELSE CollectSentences(SENTENCE_ENDINGS_split(paragraph), 1, <<>>)

\* steps 1 and 2 of splitIntoSentences (lines 25-31)
NormalizeText(text) ==
  LET marked   == ReplaceNlRuns(text, PARAGRAPH)
      softened == ReplaceAll(marked, <<NL>>, <<SP>>)
      restored == ReplaceAll(softened, PARAGRAPH, <<NL>>)
  IN  Trim(CollapseWs(restored))

LongEnough(s) == Len(s) >= MIN_SENTENCE_LENGTH

RECURSIVE MapParagraphs(_)
MapParagraphs(ps) ==
  IF ps = <<>> THEN <<>>
  ELSE ParagraphSentences(Head(ps)) \o MapParagraphs(Tail(ps))

\* splitIntoSentences falling back to the whole text when it found no sentence
splitIntoSentences_wholeTextFallback(text) ==
  LET found == IF Len(text) = 0 \/ Len(Trim(text)) = 0 THEN <<>>
               ELSE SelectSeq(MapParagraphs(SplitOn(NormalizeText(text), NL)),
                              LongEnough)
  IN  IF found = <<>> THEN <<text>> ELSE found

splitIntoSentences(text) ==
  IF Len(text) = 0 \/ Len(Trim(text)) = 0 THEN <<>>
  ELSE SelectSeq(MapParagraphs(SplitOn(NormalizeText(text), NL)), LongEnough)

\* the character class of cleanSentence: what replace(/[^...]/g, '') keeps
KeptByClean(c) == c \in WordChars \cup Whitespace \cup KeptPunct

RECURSIVE StripDisallowed(_)
StripDisallowed(s) ==
  IF s = <<>> THEN <<>>
  ELSE IF KeptByClean(Head(s)) THEN <<Head(s)>> \o StripDisallowed(Tail(s))
       ELSE StripDisallowed(Tail(s))

cleanSentence(sentence) == StripDisallowed(CollapseWs(Trim(sentence)))

RECURSIVE MapClean(_)
MapClean(ss) ==
  IF ss = <<>> THEN <<>> ELSE <<cleanSentence(Head(ss))>> \o MapClean(Tail(ss))

\* processOCRText without the second length filter (step 3)
processOCRText_noRefilter(text) == MapClean(splitIntoSentences(text))

processOCRText(text) ==
  SelectSeq(MapClean(splitIntoSentences(text)), LongEnough)

(***************************************************************************)
(* State.                                                                  *)
(***************************************************************************)
VARIABLES
  \* the sentence splitter called on a text
  textIn,     \* the text handed to the sentence splitter, as its pieces
  textCall,   \* which function of the splitter was called on it ("none" before)
  textOut,    \* the list of sentences the call returned
  cleanOut,   \* the results of cleanSentence applied once, twice, ...
  \* OCRResultScreen (ocr-result.tsx) and the capture store
  apiKeySet,  \* GOOGLE_VISION_API_KEY is a non-empty string
  images,     \* useCaptureStore().images: the ids of the batch, in order
  sentences,  \* useState<ExtractedSentence[]>
  isLoading,  \* useState(true)
  effectDue,  \* the effect on [images] has not run yet for the current images
  extractRuns,\* the extractText calls in flight, each at its await
  selectionModalVisible,
  selectedImageId,       \* "" for null (selectedImageUri goes with it)
  selectionRect,         \* <<>> for null, else <<[x, y, width, height]>>
  isSelecting,
  isExtractingSelection,
  startPoint,            \* <<>> for null, else <<[x, y]>>
  imageLayout,           \* <<>> for null, else <<[width, height]>>
  manualRuns, \* the handleExtractSelection calls in flight, each at its awaits
  manualStarted, \* how many handleExtractSelection calls passed their guards
  now,        \* the clock Date.now() reads
  emitted,    \* how many candidates were created so far, and
  events,     \* how many extractions created candidates (both for the
              \* statement of properties only)
  alert,      \* the dialog Alert.alert is showing, "" for none
  \* ManualExtractScreen (manual-extract.tsx)
  textLines,       \* useState<SelectableTextLine[]>
  selectionStart,  \* <<>> for null, else <<[x, y]>>
  selectionEnd,    \* <<>> for null, else <<[x, y]>>
  isDragging,
  manualIsLoading, \* the isLoading of ManualExtractScreen
  touch,           \* the gesture the responder system is tracking
  \* checkIntersection (manual-extract.tsx) called on its own
  geoLineBox,      \* the argument lineBox
  geoSelStart,     \* the argument selStart
  geoSelEnd,       \* the argument selEnd
  geoCalled,       \* the call has returned
  geoResult,       \* what it returned
  \* performBatchStructuredOCR (google-vision.ts) called on its own
  batchUris,       \* the argument imageUris
  batchOnProgress, \* an onProgress callback is given
  batchIndex,      \* the loop variable i, counted from 1
  batchStage,      \* "loop", "called" (at the await) or "returned"
  batchResults,    \* the Map results, as the sequence of its entries
  batchLog,        \* what happened so far: the calls of onProgress, and the
                   \* OCR calls started and finished (for the statement of
                   \* properties only)
  \* parseGeminiResponse (google-vision.ts) called on a response text
  responseText,    \* the text of the response, as characters
  parseCalled,     \* parseGeminiResponse has returned
  parseResult,     \* the OCRStructuredResult it returned
  \* the crop region of handleExtractSelection (ocr-result.tsx) computed on its own
  cropSelection,   \* selectionRect
  cropImageInfo,   \* imageInfo: the pixel size of the image
  cropLayout,      \* imageLayout: the size the image is displayed at
  cropCalled,      \* the crop region has been computed
  cropRegion,      \* the crop region handed to manipulateAsync
  \* OCRResultScreen: editing the candidates and saving them
  edits,           \* number of calls of handleToggleSentence and handleEditSentence
  isProcessing,    \* isProcessing of the capture store
  saveRuns,        \* the calls of handleSave that are awaiting
  saveStarted,     \* number of calls of handleSave that passed its guards
  savedQuotes,     \* the lists handed to saveQuotes, in order (for the
                   \* statement of properties only)
  savesSucceeded,  \* number of calls of saveQuotes that resolved
  captureResets,   \* number of calls of resetCapture
  \* the capture flow before the result screen (camera screen, preview.tsx)
  captureScreen,   \* the screen on top of the capture stack: "closed", "camera"
                   \* or "preview"
  imagesMade,      \* number of images made so far; an image is named by its number
  \* useQuotesStore (src/unnamed/part_000)
  quotes,              \* the local list of notes, newest first
  isSyncing,
  quotesError,         \* the store's error
  quoteRequests,       \* calls of saveQuotes and syncUpdateQuote awaiting the backend
  deleteRuns,          \* calls of deleteQuote awaiting the backend, with their currentQuotes
  quotesUndeleted,     \* the list as it would be without the delete in flight
  notesCreated,        \* notes made by saveQuotes
  quoteOps,            \* store operations started besides deleteQuote
  deletesStarted

textVars == <<textIn, textCall, textOut, cleanOut>>

selectionVars == <<selectionModalVisible, selectedImageId, selectionRect,
                   isSelecting, startPoint, imageLayout>>

ocrVars == <<apiKeySet, images, sentences, isLoading, effectDue, extractRuns,
             isExtractingSelection, manualRuns, manualStarted, now, emitted,
             events, alert>>

dragVars == <<textLines, selectionStart, selectionEnd, isDragging,
              manualIsLoading, touch>>

geomVars == <<geoLineBox, geoSelStart, geoSelEnd, geoCalled, geoResult>>

\* the functions that are called on their own
batchVars == <<batchUris, batchOnProgress, batchIndex, batchStage,
               batchResults, batchLog>>

parseVars == <<responseText, parseCalled, parseResult>>

cropVars == <<cropSelection, cropImageInfo, cropLayout, cropCalled, cropRegion>>

saveVars == <<edits, isProcessing, saveRuns, saveStarted, savedQuotes,
              savesSucceeded, captureResets>>

captureVars == <<captureScreen, imagesMade>>

quoteVars == <<quotes, isSyncing, quotesError, quoteRequests, deleteRuns, quotesUndeleted, notesCreated, quoteOps, deletesStarted>>

harnessVars == <<geomVars, batchVars, parseVars, cropVars, saveVars, captureVars, quoteVars>>

vars == <<textVars, ocrVars, selectionVars, dragVars, harnessVars>>

(***************************************************************************)
(* The sentence splitter on bounded inputs.                                *)
(***************************************************************************)
Pieces == {Rep("a", 3), Rep("b", 3), <<SP>>, <<NL>>, <<".">>, <<"^">>}

Text == Flatten(textIn)

InitTextVars ==
  /\ textIn = <<>>
  /\ textCall = "none"
  /\ textOut = <<>>
  /\ cleanOut = <<>>

\* the screen before it is mounted with a batch
InitScreenVars ==
  /\ sentences = <<>>
  /\ isLoading = TRUE
  /\ effectDue = TRUE
  /\ extractRuns = <<>>
  /\ selectionModalVisible = FALSE
  /\ selectedImageId = ""
  /\ selectionRect = <<>>
  /\ isSelecting = FALSE
  /\ isExtractingSelection = FALSE
  /\ startPoint = <<>>
  /\ imageLayout = <<>>
  /\ manualRuns = <<>>
  /\ manualStarted = 0
  /\ now = 0
  /\ emitted = 0
  /\ events = 0
  /\ alert = ""

\* hadSelection: a line was selected when the gesture started (for the
\* statement of properties only)
NoTouch == [down |-> FALSE, x0 |-> 0, y0 |-> 0, dx |-> 0, dy |-> 0,
            moved |-> FALSE, hadSelection |-> FALSE]

\* manual-extract.tsx lines 57-66: ManualExtractScreen as constructed
InitDragVars ==
  /\ textLines = <<>>
  /\ selectionStart = <<>>
  /\ selectionEnd = <<>>
  /\ isDragging = FALSE
  /\ manualIsLoading = TRUE
  /\ touch = NoTouch

\* no call of checkIntersection on its own
InitGeomVars ==
  /\ geoLineBox = [x |-> 0, y |-> 0, width |-> 0, height |-> 0]
  /\ geoSelStart = [x |-> 0, y |-> 0]
  /\ geoSelEnd = [x |-> 0, y |-> 0]
  /\ geoCalled = FALSE
  /\ geoResult = FALSE

\* no call of performBatchStructuredOCR on its own
InitBatchVars ==
  /\ batchUris = <<>>
  /\ batchOnProgress = FALSE
  /\ batchIndex = 1
  /\ batchStage = "returned"
  /\ batchResults = <<>>
  /\ batchLog = <<>>

\* the parser unused: an empty text, parsed
InitParseVars ==
  /\ responseText = <<>>
  /\ parseCalled = TRUE
  /\ parseResult = [paragraphs |-> <<>>, underlinedSentences |-> <<>>,
                    bookTitle |-> [type |-> "null", items |-> <<>>, str |-> <<>>, num |-> 0],
                    pageNumber |-> [type |-> "null", items |-> <<>>, str |-> <<>>, num |-> 0]]

\* the crop computation unused
InitCropVars ==
  /\ cropSelection = [x |-> 0, y |-> 0, width |-> 0, height |-> 0]
  /\ cropImageInfo = [width |-> 1, height |-> 1]
  /\ cropLayout = [width |-> 1, height |-> 1]
  /\ cropCalled = TRUE
  /\ cropRegion = [originX |-> 0, originY |-> 0, width |-> 0, height |-> 0]

\* nothing edited, nothing saved
InitSaveVars ==
  /\ edits = 0
  /\ isProcessing = FALSE
  /\ saveRuns = <<>>
  /\ saveStarted = 0
  /\ savedQuotes = <<>>
  /\ savesSucceeded = 0
  /\ captureResets = 0

\* the capture flow past its first two screens
InitCaptureVars ==
  /\ captureScreen = "closed"
  /\ imagesMade = 0

InitQuoteVars ==
  /\ quotes = <<>>
  /\ isSyncing = FALSE
  /\ quotesError = ""
  /\ quoteRequests = <<>>
  /\ deleteRuns = <<>>
  /\ quotesUndeleted = <<>>
  /\ notesCreated = 0
  /\ quoteOps = 0
  /\ deletesStarted = 0

InitHarnessVars == InitGeomVars /\ InitBatchVars /\ InitParseVars /\ InitCropVars /\ InitSaveVars /\ InitCaptureVars /\ InitQuoteVars

InitText ==
  /\ InitTextVars
  /\ InitScreenVars
  /\ InitDragVars
  /\ InitHarnessVars
  /\ apiKeySet = TRUE
  /\ images = <<>>

AppendPiece(p) ==
  /\ textCall = "none"
  /\ Len(textIn) < MaxPieces
  /\ textIn' = Append(textIn, p)
  /\ UNCHANGED <<textCall, textOut, cleanOut, ocrVars, selectionVars, dragVars, harnessVars>>

CallSplitIntoSentences ==
  /\ textCall = "none"
  /\ textCall' = "splitIntoSentences"
  /\ textOut' = splitIntoSentences(Text)
  /\ UNCHANGED <<textIn, cleanOut, ocrVars, selectionVars, dragVars, harnessVars>>

CallProcessOCRText ==
  /\ textCall = "none"
  /\ textCall' = "processOCRText"
  /\ textOut' = processOCRText(Text)
  /\ UNCHANGED <<textIn, cleanOut, ocrVars, selectionVars, dragVars, harnessVars>>

\* cleanSentence(s), and then cleanSentence of its own result
CallCleanSentence ==
  /\ textCall \in {"none", "cleanSentence"}
  /\ Len(cleanOut) < 2
  /\ textCall' = "cleanSentence"
  /\ cleanOut' = Append(cleanOut,
                        cleanSentence(IF cleanOut = <<>> THEN Text
                                      ELSE cleanOut[Len(cleanOut)]))
  /\ UNCHANGED <<textIn, textOut, ocrVars, selectionVars, dragVars, harnessVars>>

NextText ==
  \/ \E p \in Pieces : AppendPiece(p)
  \/ CallSplitIntoSentences
  \/ CallProcessOCRText
  \/ CallCleanSentence

SpecText == InitText /\ [][NextText]_vars

(***************************************************************************)
(* OCRResultScreen: the OCR service's answers the model draws from.        *)
(***************************************************************************)
ImageIds == {"img1", "img2"}

\* the batches the screen is mounted with
Batches == {<<>>, <<"img1">>, <<"img1", "img2">>}

Digits == <<"0", "1", "2", "3", "4", "5", "6", "7", "8", "9">>
\* `${n}` for a number below 10
ToStr(n) == Digits[n + 1]

WordA == Rep("a", 5)
WordB == Rep("b", 5)
WordC == Rep("c", 5)
\* "aaaaa. bbbbb."
ParaTwoSentences == WordA \o <<".", SP>> \o WordB \o <<".">>
\* "aaaaa bbbbb ccccc"
ParaOneSentence == WordA \o <<SP>> \o WordB \o <<SP>> \o WordC

EmptyResult == [paragraphs |-> <<>>, underlinedSentences |-> <<>>]

\* what performStructuredOCR resolves to (OCRStructuredResult; bookTitle and
\* pageNumber are only logged)
OcrResponses ==
  { EmptyResult,
    [paragraphs |-> <<ParaOneSentence>>, underlinedSentences |-> <<WordB>>],
    [paragraphs |-> <<ParaTwoSentences>>, underlinedSentences |-> <<WordC>>],
    [paragraphs |-> <<ParaTwoSentences>>, underlinedSentences |-> <<WordB, WordC>>],
    [paragraphs |-> <<ParaTwoSentences>>, underlinedSentences |-> << <<>> >>],
    [paragraphs |-> <<>>, underlinedSentences |-> <<WordB>>] }

\* the outcome of one call of the OCR service: it resolves or it throws
OcrOutcomes ==
  {[ok |-> TRUE, result |-> r] : r \in OcrResponses}
    \cup {[ok |-> FALSE, result |-> EmptyResult]}

\* the dummy text of the branch without an API key: three sentences
DummyText ==
  WordA \o <<".", SP>> \o WordB \o <<".", SP>> \o WordC \o <<".">>

\* where touches land in the selection view
TouchPoints == {[x |-> 0, y |-> 0], [x |-> 0, y |-> 30], [x |-> 30, y |-> 10]}

\* the layout the selection view reports, and the size of the image
Layouts == {[width |-> 100, height |-> 100]}

\* the smallest side of a selection that is extracted
MIN_SELECTION_SIDE == 20

(***************************************************************************)
(* OCRResultScreen: extractText (lines 126-169).                           *)
(***************************************************************************)
\* processOCRText on the texts the screen hands to it, computed once
OcrTexts ==
  UNION {{r.paragraphs[k] : k \in 1..Len(r.paragraphs)} : r \in OcrResponses}
    \cup {DummyText}

processedOCRText == [text \in OcrTexts |-> processOCRText(text)]

\* line 134-135: underlinedSet.has(content) || underlinedSentences.some(...)
IsMarkedUnderlined(content, underlined) ==
  \E j \in 1..Len(underlined) :
    \/ underlined[j] = content
    \/ Includes(content, underlined[j])
    \/ Includes(underlined[j], content)

\* lines 131-144: the candidates of paragraph number pIndex (from 1)
SentenceCandidates(imgId, result, pIndex, base, ev) ==
  LET ss == processedOCRText[result.paragraphs[pIndex]]
  IN  [k \in 1..Len(ss) |->
        [id |-> <<"sentence", imgId, ToStr(pIndex - 1), ToStr(k - 1)>>,
         content |-> ss[k],
         imageId |-> imgId,
         selected |-> TRUE,
         isUnderlined |-> IsMarkedUnderlined(ss[k], result.underlinedSentences),
         seq |-> base + k,
         event |-> ev]]

\* lines 130-145: result.paragraphs.forEach
RECURSIVE PushParagraphs(_, _, _, _, _, _)
PushParagraphs(all, imgId, result, pIndex, base, ev) ==
  IF pIndex > Len(result.paragraphs) THEN all
  ELSE PushParagraphs(
         all \o SentenceCandidates(imgId, result, pIndex, base + Len(all), ev),
         imgId, result, pIndex + 1, base, ev)

\* alreadyExists of lines 149-151 never finding the underlined sentence
AlreadyExists_never(all, u) == FALSE

\* line 149-151: allSentences.some(s => s.content === u || s.content.includes(u))
AlreadyExists(all, u) ==
  \E i \in 1..Len(all) : all[i].content = u \/ Includes(all[i].content, u)

\* lines 148-161: result.underlinedSentences.forEach
RECURSIVE PushUnderlined(_, _, _, _, _, _)
PushUnderlined(all, imgId, result, uIndex, base, ev) ==
  IF uIndex > Len(result.underlinedSentences) THEN all
  ELSE LET u == result.underlinedSentences[uIndex]
       IN  PushUnderlined(
             IF ~AlreadyExists(all, u) /\ Len(Trim(u)) > 0
             THEN Append(all,
                    [id |-> <<"underlined", imgId, ToStr(uIndex - 1)>>,
                     content |-> u,
                     imageId |-> imgId,
                     selected |-> TRUE,
                     isUnderlined |-> TRUE,
                     seq |-> base + Len(all) + 1,
                     event |-> ev])
             ELSE all,
             imgId, result, uIndex + 1, base, ev)

\* lines 114-162: images.forEach over the batch the call started with;
\* results[i] is ocrResults.get(imgs[i].uri)
RECURSIVE ExtractImages(_, _, _, _, _, _)
ExtractImages(all, imgs, results, i, base, ev) ==
  IF i > Len(imgs) THEN all
  ELSE ExtractImages(
         PushUnderlined(
           PushParagraphs(all, imgs[i], results[i], 1, base, ev),
           imgs[i], results[i], 1, base, ev),
         imgs, results, i + 1, base, ev)

IsUnderlinedCandidate(s) == s.isUnderlined
IsPlainCandidate(s) == ~s.isUnderlined

\* lines 165-169 and 396-400: Array.prototype.sort is stable, and the
\* comparator orders only by isUnderlined
SortUnderlinedFirst(list) ==
  SelectSeq(list, IsUnderlinedCandidate) \o SelectSeq(list, IsPlainCandidate)

\* lines 97-169: allSentences of the branch with an API key
StructuredSentences(imgs, results, base, ev) ==
  SortUnderlinedFirst(ExtractImages(<<>>, imgs, results, 1, base, ev))

\* lines 175-183: the branch without an API key
DummySentences(imgs, t, base, ev) ==
  LET ss == processedOCRText[DummyText]
  IN  [k \in 1..Len(ss) |->
        [id |-> <<"sentence", ToStr(t), ToStr(k - 1)>>,
         content |-> ss[k],
         imageId |-> IF Len(imgs) > 0 THEN imgs[1] ELSE "",
         selected |-> TRUE,
         isUnderlined |-> FALSE,
         seq |-> base + k,
         event |-> ev]]

\* the sentences of one image as they lie in the list
ImageSentences_unsorted(img) ==
  SelectSeq(sentences, LAMBDA s : s.imageId = img)

\* lines 394-400: the sentences of one image, underlined ones first
ImageSentences(img) ==
  SortUnderlinedFirst(SelectSeq(sentences, LAMBDA s : s.imageId = img))

\* lines 390-412: groupedSentences
RECURSIVE GroupsFrom(_)
GroupsFrom(i) ==
  IF i > Len(images) THEN <<>>
  ELSE (IF Len(ImageSentences(images[i])) > 0
        THEN <<[imageId |-> images[i], data |-> ImageSentences(images[i])]>>
        ELSE <<>>)
       \o GroupsFrom(i + 1)

groupedSentences == GroupsFrom(1)

\* lines 302-314: newSentences of a region extraction
RECURSIVE ManualParagraphs(_, _, _, _, _, _, _)
ManualParagraphs(new, imgId, result, pIndex, t, base, ev) ==
  IF pIndex > Len(result.paragraphs) THEN new
  ELSE LET ss == processedOCRText[result.paragraphs[pIndex]]
       IN  ManualParagraphs(
             new \o [k \in 1..Len(ss) |->
                      [id |-> <<"manual", ToStr(t), ToStr(pIndex - 1), ToStr(k - 1)>>,
                       content |-> ss[k],
                       imageId |-> imgId,
                       selected |-> TRUE,
                       isUnderlined |->
                         \E j \in 1..Len(result.underlinedSentences) :
                           \/ Includes(ss[k], result.underlinedSentences[j])
                           \/ Includes(result.underlinedSentences[j], ss[k]),
                       seq |-> base + Len(new) + k,
                       event |-> ev]],
             imgId, result, pIndex + 1, t, base, ev)

NewSentences(imgId, result, t, base, ev) ==
  ManualParagraphs(<<>>, imgId, result, 1, t, base, ev)

(***************************************************************************)
(* OCRResultScreen: the handlers.  The view of the selection modal is not  *)
(* part of the screen's render in src/: its handlers (handleTouchStart,    *)
(* handleTouchMove, handleTouchEnd, handleExtractSelection) and the setter *)
(* of imageLayout are modelled as the operations that view invokes.        *)
(***************************************************************************)
Init ==
  /\ InitTextVars
  /\ InitScreenVars
  /\ InitDragVars
  /\ InitHarnessVars
  /\ apiKeySet \in BOOLEAN
  /\ images \in Batches

RemoveAt(seq, k) == SubSeq(seq, 1, k - 1) \o SubSeq(seq, k + 1, Len(seq))

\* lines 87-94 and 106: the effect on [images] runs extractText up to its
\* first await
ExtractTextStart ==
  /\ effectDue
  /\ effectDue' = FALSE
  /\ IF images = <<>>
     THEN /\ isLoading' = FALSE
          /\ UNCHANGED extractRuns
     ELSE /\ isLoading' = TRUE
          /\ extractRuns' = Append(extractRuns, [imgs |-> images, results |-> <<>>])
  /\ UNCHANGED <<textVars, harnessVars, dragVars, selectionVars, apiKeySet, images, alert, sentences,
                 isExtractingSelection, manualRuns, manualStarted, now,
                 emitted, events>>

\* google-vision.ts lines 334-349: performBatchStructuredOCR gets the answer
\* for its next image; a call that throws leaves the empty result
BatchOcrImageDone(r, outcome) ==
  /\ apiKeySet
  /\ r \in 1..Len(extractRuns)
  /\ Len(extractRuns[r].results) < Len(extractRuns[r].imgs)
  /\ extractRuns' =
       [extractRuns EXCEPT ![r].results =
          Append(@, IF outcome.ok THEN outcome.result ELSE EmptyResult)]
  /\ UNCHANGED <<textVars, harnessVars, dragVars, selectionVars, apiKeySet, images, alert, sentences,
                 isLoading, effectDue, isExtractingSelection, manualRuns,
                 manualStarted, now, emitted, events>>

\* extractText without the finally of lines 190-192
ExtractTextFinish_withoutFinally(r) ==
  /\ apiKeySet
  /\ r \in 1..Len(extractRuns)
  /\ Len(extractRuns[r].results) = Len(extractRuns[r].imgs)
  /\ LET all == StructuredSentences(extractRuns[r].imgs, extractRuns[r].results,
                                    emitted, events + 1)
     IN  /\ sentences' = all
         /\ emitted' = emitted + Len(all)
  /\ events' = events + 1
  /\ extractRuns' = RemoveAt(extractRuns, r)
  /\ UNCHANGED <<textVars, harnessVars, dragVars, selectionVars, apiKeySet, images, alert, effectDue,
                 isExtractingSelection, manualRuns, manualStarted, now, isLoading>>

\* lines 111-169, 186 and 190-192: extractText after performBatchStructuredOCR
\* has resolved
ExtractTextFinish(r) ==
  /\ apiKeySet
  /\ r \in 1..Len(extractRuns)
  /\ Len(extractRuns[r].results) = Len(extractRuns[r].imgs)
  /\ LET all == StructuredSentences(extractRuns[r].imgs, extractRuns[r].results,
                                    emitted, events + 1)
     IN  /\ sentences' = all
         /\ emitted' = emitted + Len(all)
  /\ events' = events + 1
  /\ isLoading' = FALSE
  /\ extractRuns' = RemoveAt(extractRuns, r)
  /\ UNCHANGED <<textVars, harnessVars, dragVars, selectionVars, apiKeySet, images, alert, effectDue,
                 isExtractingSelection, manualRuns, manualStarted, now>>

\* lines 171-186 and 190-192: extractText without an API key, after its timer;
\* the timers all wait 1000 ms, so they fire in the order they were set
ExtractTextDummyFinish(r, t) ==
  /\ ~apiKeySet
  /\ r \in 1..Len(extractRuns)
  /\ r = 1
  /\ t \in {now, now + 1}
  /\ t <= MaxClock
  /\ now' = t
  /\ LET all == DummySentences(extractRuns[r].imgs, t, emitted, events + 1)
     IN  /\ sentences' = all
         /\ emitted' = emitted + Len(all)
  /\ events' = events + 1
  /\ isLoading' = FALSE
  /\ extractRuns' = RemoveAt(extractRuns, r)
  /\ UNCHANGED <<textVars, harnessVars, dragVars, selectionVars, apiKeySet, images, alert, effectDue,
                 isExtractingSelection, manualRuns, manualStarted>>

\* capture-store.ts lines 59-62: removeImage filters the image out of the
\* store; the new array re-runs the effect on [images] of the result screen,
\* which has no cleanup and cancels nothing
RemoveImage(img) ==
  /\ \E k \in 1..Len(images) : images[k] = img
  /\ images' = SelectSeq(images, LAMBDA i : i # img)
  /\ effectDue' = TRUE
  /\ UNCHANGED <<textVars, harnessVars, dragVars, selectionVars, apiKeySet, alert, sentences,
                 isLoading, extractRuns, isExtractingSelection, manualRuns,
                 manualStarted, now, emitted, events>>

\* A dialog of Alert.alert is modal: while it is shown, no touch reaches the
\* screen, so the handlers of touches below require alert = "".

\* lines 215-220; the header that calls it is rendered for the groups of
\* groupedSentences, once the screen is past its loading views (lines 510-524)
HandleImagePress(img) ==
  /\ alert = ""
  /\ ~isLoading
  /\ ~isProcessing
  /\ \E g \in 1..Len(groupedSentences) : groupedSentences[g].imageId = img
  /\ selectedImageId' = img
  /\ selectionRect' = <<>>
  /\ selectionModalVisible' = TRUE
  /\ UNCHANGED <<textVars, harnessVars, dragVars, ocrVars, isSelecting, startPoint, imageLayout>>

\* lines 223-229
HandleCloseSelectionModal ==
  /\ alert = ""
  /\ selectionModalVisible
  /\ selectionModalVisible' = FALSE
  /\ selectedImageId' = ""
  /\ selectionRect' = <<>>
  /\ isSelecting' = FALSE
  /\ UNCHANGED <<textVars, harnessVars, dragVars, ocrVars, startPoint, imageLayout>>

\* line 84: setImageLayout, called by the selection view when it is laid out
SetImageLayout(l) ==
  /\ selectionModalVisible
  /\ imageLayout = <<>>
  /\ imageLayout' = <<l>>
  /\ UNCHANGED <<textVars, harnessVars, dragVars, ocrVars, selectionModalVisible, selectedImageId,
                 selectionRect, isSelecting, startPoint>>

\* lines 232-238
HandleTouchStart(p) ==
  /\ alert = ""
  /\ selectionModalVisible
  /\ imageLayout # <<>>
  /\ startPoint' = <<p>>
  /\ selectionRect' = <<[x |-> p.x, y |-> p.y, width |-> 0, height |-> 0]>>
  /\ isSelecting' = TRUE
  /\ UNCHANGED <<textVars, harnessVars, dragVars, ocrVars, selectionModalVisible, selectedImageId,
                 imageLayout>>

Min(a, b) == IF a <= b THEN a ELSE b
Abs(a) == IF a < 0 THEN 0 - a ELSE a

\* handleTouchMove with the rectangle anchored at the start point
HandleTouchMove_anchoredAtStart(p) ==
  /\ alert = ""
  /\ selectionModalVisible
  /\ isSelecting
  /\ startPoint # <<>>
  /\ selectionRect' = <<[x |-> startPoint[1].x,
                         y |-> startPoint[1].y,
                         width |-> p.x - startPoint[1].x,
                         height |-> p.y - startPoint[1].y]>>
  /\ UNCHANGED <<textVars, harnessVars, dragVars, ocrVars, selectionModalVisible, selectedImageId,
                 isSelecting, startPoint, imageLayout>>

\* lines 241-251
HandleTouchMove(p) ==
  /\ alert = ""
  /\ selectionModalVisible
  /\ isSelecting
  /\ startPoint # <<>>
  /\ selectionRect' = <<[x |-> Min(startPoint[1].x, p.x),
                         y |-> Min(startPoint[1].y, p.y),
                         width |-> Abs(p.x - startPoint[1].x),
                         height |-> Abs(p.y - startPoint[1].y)]>>
  /\ UNCHANGED <<textVars, harnessVars, dragVars, ocrVars, selectionModalVisible, selectedImageId,
                 isSelecting, startPoint, imageLayout>>

\* lines 254-256
HandleTouchEnd ==
  /\ alert = ""
  /\ selectionModalVisible
  /\ isSelecting
  /\ isSelecting' = FALSE
  /\ UNCHANGED <<textVars, harnessVars, dragVars, ocrVars, selectionModalVisible, selectedImageId,
                 selectionRect, startPoint, imageLayout>>

\* line 260: something to extract from is selected
ExtractSelectionGiven ==
  /\ selectionRect # <<>>
  /\ selectedImageId # ""
  /\ imageLayout # <<>>

\* the guards of handleExtractSelection with the width alone compared
ExtractSelectionAccepted_widthOnly ==
  /\ ExtractSelectionGiven
  /\ selectionRect[1].width >= MIN_SELECTION_SIDE

\* lines 260-268: the guards of handleExtractSelection
ExtractSelectionAccepted ==
  /\ ExtractSelectionGiven
  /\ selectionRect[1].width >= MIN_SELECTION_SIDE
  /\ selectionRect[1].height >= MIN_SELECTION_SIDE

\* lines 259-274: handleExtractSelection up to its first await; a call that
\* fails a guard returns after its alert and changes nothing else
HandleExtractSelectionStart ==
  /\ alert = ""
  /\ selectionModalVisible
  /\ IF ExtractSelectionAccepted
     THEN /\ isExtractingSelection' = TRUE
          /\ manualRuns' = Append(manualRuns,
                                  [imageId |-> selectedImageId,
                                   rect |-> selectionRect[1],
                                   layout |-> imageLayout[1]])
          /\ manualStarted' = manualStarted + 1
          /\ UNCHANGED alert
     ELSE /\ alert' = IF ExtractSelectionGiven THEN "selectionTooSmall"
                      ELSE "selectRegion"
          /\ UNCHANGED <<isExtractingSelection, manualRuns, manualStarted>>
  /\ UNCHANGED <<textVars, harnessVars, dragVars, selectionVars, apiKeySet, images, sentences,
                 isLoading, effectDue, extractRuns, now, emitted, events>>

\* the updater of line 316 with the candidates of equal content removed
\* from the previous list
MergeNewSentences_replacing(newSentences, prev) ==
  newSentences
    \o SelectSeq(prev, LAMBDA s : \A k \in 1..Len(newSentences) :
                                    newSentences[k].content # s.content)

\* line 316: prev => [...newSentences, ...prev]
MergeNewSentences(newSentences, prev) == newSentences \o prev

\* handleExtractSelection without its finally
ExtractSelectionFinally_missing == UNCHANGED isExtractingSelection

\* lines 322-324: finally { setIsExtractingSelection(false) }
ExtractSelectionFinally == isExtractingSelection' = FALSE

\* lines 274-324: handleExtractSelection after its awaits (image size, crop,
\* performStructuredOCR): one of them threw, or the service answered; to a
\* request without a key it answers with an error status, which
\* performGeminiOCR throws (google-vision.ts lines 209-212)
HandleExtractSelectionFinish(k, outcome, t) ==
  /\ k \in 1..Len(manualRuns)
  /\ outcome.ok => apiKeySet
  /\ t \in {now, now + 1}
  /\ t <= MaxClock
  /\ manualRuns' = RemoveAt(manualRuns, k)
  /\ ExtractSelectionFinally
  /\ IF outcome.ok /\ Len(outcome.result.paragraphs) > 0
     THEN LET new == NewSentences(manualRuns[k].imageId, outcome.result, t,
                                  emitted, events + 1)
          IN  /\ sentences' = MergeNewSentences(new, sentences)
              /\ emitted' = emitted + Len(new)
              /\ events' = events + 1
              /\ now' = t
              /\ selectionModalVisible' = FALSE
              /\ selectedImageId' = ""
              /\ selectionRect' = <<>>
              /\ isSelecting' = FALSE
              /\ alert' = "added"
     ELSE /\ t = now
          /\ alert' = IF outcome.ok THEN "noText" ELSE "extractionFailed"
          /\ UNCHANGED <<sentences, emitted, events, now,
                         selectionModalVisible, selectedImageId, selectionRect,
                         isSelecting>>
  /\ UNCHANGED <<textVars, harnessVars, dragVars, apiKeySet, images, isLoading, effectDue,
                 extractRuns, manualStarted, startPoint, imageLayout>>

\* the user closes the dialog of Alert.alert (lines 261-321); the button of
\* the dialog of line 369 leaves the screen (router.replace)
DismissAlert ==
  /\ alert # ""
  /\ alert # "saved"
  /\ alert' = ""
  /\ UNCHANGED <<textVars, harnessVars, dragVars, selectionVars, apiKeySet, images, sentences,
                 isLoading, effectDue, extractRuns, isExtractingSelection,
                 manualRuns, manualStarted, now, emitted, events>>

(***************************************************************************)
(* OCRResultScreen: handleToggleSentence, handleEditSentence (lines        *)
(* 198-208) and handleSave (lines 327-385).                                *)
(***************************************************************************)
\* number of calls of handleToggleSentence and handleEditSentence
MaxEdits == 1
\* number of calls of handleSave that pass its guards
MaxSaves == 1

\* the texts typed into a candidate: a blank one, and the text of an
\* underlined sentence
EditTexts == {<<SP>>, WordC}

\* lines 199-201 (capture-store.ts lines 76-81 has the same updater)
ToggleSentence(id, prev) ==
  [k \in 1..Len(prev) |->
     IF prev[k].id = id THEN [prev[k] EXCEPT !.selected = ~@] ELSE prev[k]]

\* the updater of handleEditSentence that marks the candidate again
UpdateSentence_remarking(id, content, prev) ==
  [k \in 1..Len(prev) |->
     IF prev[k].id = id
     THEN [prev[k] EXCEPT !.content = content, !.isUnderlined = (content = WordC)]
     ELSE prev[k]]

\* lines 205-207 (capture-store.ts lines 83-88 has the same updater)
UpdateSentence(id, content, prev) ==
  [k \in 1..Len(prev) |->
     IF prev[k].id = id THEN [prev[k] EXCEPT !.content = content] ELSE prev[k]]

\* the ids of the items the SectionList renders (lines 554-563)
DisplayedIds ==
  UNION {{groupedSentences[g].data[k].id : k \in 1..Len(groupedSentences[g].data)} :
           g \in 1..Len(groupedSentences)}

\* the list is on screen and takes touches: no loading view (lines 510-524),
\* no dialog, no selection modal over it
ListTakesTouches ==
  /\ alert = ""
  /\ ~isLoading
  /\ ~isProcessing
  /\ ~selectionModalVisible

\* lines 198-202
HandleToggleSentence(id) ==
  /\ ListTakesTouches
  /\ id \in DisplayedIds
  /\ edits < MaxEdits
  /\ edits' = edits + 1
  /\ sentences' = ToggleSentence(id, sentences)
  /\ UNCHANGED <<textVars, dragVars, selectionVars, captureVars, quoteVars, geomVars, batchVars, parseVars, cropVars,
                 apiKeySet, images, isLoading, effectDue, extractRuns,
                 isExtractingSelection, manualRuns, manualStarted, now, emitted,
                 events, alert, isProcessing, saveRuns, saveStarted, savedQuotes,
                 savesSucceeded, captureResets>>

\* lines 204-208
HandleEditSentence(id, content) ==
  /\ ListTakesTouches
  /\ id \in DisplayedIds
  /\ edits < MaxEdits
  /\ edits' = edits + 1
  /\ sentences' = UpdateSentence(id, content, sentences)
  /\ UNCHANGED <<textVars, dragVars, selectionVars, captureVars, quoteVars, geomVars, batchVars, parseVars, cropVars,
                 apiKeySet, images, isLoading, effectDue, extractRuns,
                 isExtractingSelection, manualRuns, manualStarted, now, emitted,
                 events, alert, isProcessing, saveRuns, saveStarted, savedQuotes,
                 savesSucceeded, captureResets>>

IsSelectedCandidate(s) == s.selected

\* line 387
selectedCount == Len(SelectSeq(sentences, IsSelectedCandidate))

\* line 328 with the test of the content left out
SelectedSentences_ignoringContent(list) == SelectSeq(list, IsSelectedCandidate)

\* line 328: sentences.filter(s => s.selected && s.content.trim())
SelectedSentences(list) ==
  SelectSeq(list, LAMBDA s : s.selected /\ Trim(s.content) # <<>>)

\* lines 357-362: quotesData; the uri of an image is named by its id, and
\* "" is the undefined of an image that is not in the batch
QuotesData(selectedSentences, imgs) ==
  [k \in 1..Len(selectedSentences) |->
     [content |-> selectedSentences[k].content,
      image_url |->
        IF \E i \in 1..Len(imgs) : imgs[i] = selectedSentences[k].imageId
        THEN selectedSentences[k].imageId ELSE ""]]

\* lines 327-364: handleSave up to its first await, which is findOrCreateBook
\* for a book without an id and saveQuotes otherwise; the button is disabled
\* while nothing is selected (line 581).  userSignedIn is user?.id of the
\* auth store, selectedBook the book of the capture store: "none", or "new"
\* for a book that has no id yet
HandleSaveStart(userSignedIn, selectedBook) ==
  /\ ListTakesTouches
  /\ selectedCount # 0
  /\ saveStarted < MaxSaves
  /\ LET selectedSentences == SelectedSentences(sentences)
     IN  IF selectedSentences = <<>>
         THEN /\ alert' = "selectSentences"
              /\ UNCHANGED <<isProcessing, saveRuns, saveStarted, savedQuotes>>
         ELSE IF ~userSignedIn
         THEN /\ alert' = "loginRequired"
              /\ UNCHANGED <<isProcessing, saveRuns, saveStarted, savedQuotes>>
         ELSE /\ isProcessing' = TRUE
              /\ saveStarted' = saveStarted + 1
              /\ saveRuns' =
                   Append(saveRuns,
                          [quotesData |-> QuotesData(selectedSentences, images),
                           stage |-> IF selectedBook = "new" THEN "book"
                                     ELSE "quotes"])
              /\ savedQuotes' =
                   IF selectedBook = "new" THEN savedQuotes
                   ELSE Append(savedQuotes, QuotesData(selectedSentences, images))
              /\ UNCHANGED alert
  /\ UNCHANGED <<textVars, dragVars, selectionVars, captureVars, quoteVars, geomVars, batchVars, parseVars, cropVars,
                 apiKeySet, images, sentences, isLoading, effectDue, extractRuns,
                 isExtractingSelection, manualRuns, manualStarted, now, emitted,
                 events, edits, savesSucceeded, captureResets>>

\* lines 345-364 and 377-382: findOrCreateBook resolves, and saveQuotes is
\* called, or it throws
FindOrCreateBookDone(k, ok) ==
  /\ k \in 1..Len(saveRuns)
  /\ saveRuns[k].stage = "book"
  /\ IF ok
     THEN /\ saveRuns' = [saveRuns EXCEPT ![k].stage = "quotes"]
          /\ savedQuotes' = Append(savedQuotes, saveRuns[k].quotesData)
          /\ UNCHANGED <<alert, isProcessing>>
     ELSE /\ saveRuns' = RemoveAt(saveRuns, k)
          /\ alert' = "saveFailed"
          /\ isProcessing' = FALSE
          /\ UNCHANGED savedQuotes
  /\ UNCHANGED <<textVars, dragVars, selectionVars, captureVars, quoteVars, geomVars, batchVars, parseVars, cropVars,
                 apiKeySet, images, sentences, isLoading, effectDue, extractRuns,
                 isExtractingSelection, manualRuns, manualStarted, now, emitted,
                 events, edits, saveStarted, savesSucceeded, captureResets>>

\* lines 364-382: saveQuotes resolves, and resetCapture (capture-store.ts
\* line 100) empties the store, or it throws
SaveQuotesDone(k, ok) ==
  /\ k \in 1..Len(saveRuns)
  /\ saveRuns[k].stage = "quotes"
  /\ saveRuns' = RemoveAt(saveRuns, k)
  /\ isProcessing' = FALSE
  /\ IF ok
     THEN /\ savesSucceeded' = savesSucceeded + 1
          /\ captureResets' = captureResets + 1
          /\ images' = <<>>
          /\ effectDue' = (images # <<>> \/ effectDue)
          /\ alert' = "saved"
     ELSE /\ alert' = "saveFailed"
          /\ UNCHANGED <<savesSucceeded, captureResets, images, effectDue>>
  /\ UNCHANGED <<textVars, dragVars, selectionVars, captureVars, quoteVars, geomVars, batchVars, parseVars, cropVars,
                 apiKeySet, sentences, isLoading, extractRuns,
                 isExtractingSelection, manualRuns, manualStarted, now, emitted,
                 events, edits, saveStarted, savedQuotes>>

Next ==
  \/ ExtractTextStart
  \/ \E r \in 1..Len(extractRuns), o \in OcrOutcomes : BatchOcrImageDone(r, o)
  \/ \E r \in 1..Len(extractRuns) : ExtractTextFinish(r)
  \/ \E r \in 1..Len(extractRuns), t \in 0..MaxClock : ExtractTextDummyFinish(r, t)
  \/ \E img \in ImageIds : HandleImagePress(img)
  \/ HandleCloseSelectionModal
  \/ \E l \in Layouts : SetImageLayout(l)
  \/ \E p \in TouchPoints : HandleTouchStart(p)
  \/ \E p \in TouchPoints : HandleTouchMove(p)
  \/ HandleTouchEnd
  \/ manualStarted < MaxManual /\ HandleExtractSelectionStart
  \/ \E k \in 1..Len(manualRuns), o \in OcrOutcomes, t \in 0..MaxClock :
       HandleExtractSelectionFinish(k, o, t)
  \/ DismissAlert

Spec == Init /\ [][Next]_vars

\* The result screen with its list edited and saved: one image, an API
\* key, one drag that selects a region of 30 x 20
EditBatches == {<<"img1">>}
EditOutcomes ==
  {[ok |-> TRUE, result |-> [paragraphs |-> <<ParaTwoSentences>>,
                             underlinedSentences |-> <<WordC>>]],
   [ok |-> FALSE, result |-> EmptyResult]}

InitEdit ==
  /\ InitTextVars
  /\ InitScreenVars
  /\ InitDragVars
  /\ InitQuoteVars
  /\ InitCaptureVars
  /\ InitGeomVars
  /\ InitBatchVars
  /\ InitParseVars
  /\ InitCropVars
  /\ apiKeySet = TRUE
  /\ images \in EditBatches
  /\ edits = 0
  /\ isProcessing = FALSE
  /\ saveRuns = <<>>
  /\ saveStarted = 0
  /\ savedQuotes = <<>>
  /\ savesSucceeded = 0
  /\ captureResets = 0

NextEdit ==
  \/ ExtractTextStart
  \/ \E r \in 1..Len(extractRuns), o \in EditOutcomes : BatchOcrImageDone(r, o)
  \/ \E r \in 1..Len(extractRuns) : ExtractTextFinish(r)
  \/ \E img \in ImageIds : HandleImagePress(img)
  \/ \E l \in Layouts : SetImageLayout(l)
  \/ HandleTouchStart([x |-> 0, y |-> 30])
  \/ HandleTouchMove([x |-> 30, y |-> 10])
  \/ manualStarted < MaxManual /\ HandleExtractSelectionStart
  \/ \E k \in 1..Len(manualRuns), o \in EditOutcomes, t \in 0..MaxClock :
       HandleExtractSelectionFinish(k, o, t)
  \/ DismissAlert
  \/ \E id \in DisplayedIds : HandleToggleSentence(id)
  \/ \E id \in DisplayedIds, content \in EditTexts : HandleEditSentence(id, content)
  \/ \E userSignedIn \in BOOLEAN, selectedBook \in {"none", "new"} :
       HandleSaveStart(userSignedIn, selectedBook)
  \/ \E k \in 1..Len(saveRuns), ok \in BOOLEAN : FindOrCreateBookDone(k, ok)
  \/ \E k \in 1..Len(saveRuns), ok \in BOOLEAN : SaveQuotesDone(k, ok)

SpecEdit == InitEdit /\ [][NextEdit]_vars

\* number of region extractions of one behaviour of SpecRegions
MaxRegionRuns == 2

\* The result screen with region extractions that overlap: handleExtractSelection
\* does not look at isExtractingSelection (lines 260-268)
NextRegions ==
  \/ ExtractTextStart
  \/ \E r \in 1..Len(extractRuns), o \in EditOutcomes : BatchOcrImageDone(r, o)
  \/ \E r \in 1..Len(extractRuns) : ExtractTextFinish(r)
  \/ \E img \in ImageIds : HandleImagePress(img)
  \/ \E l \in Layouts : SetImageLayout(l)
  \/ HandleTouchStart([x |-> 0, y |-> 30])
  \/ HandleTouchMove([x |-> 30, y |-> 10])
  \/ manualStarted < MaxRegionRuns /\ HandleExtractSelectionStart
  \/ \E k \in 1..Len(manualRuns), o \in EditOutcomes, t \in 0..MaxClock :
       HandleExtractSelectionFinish(k, o, t)
  \/ DismissAlert

SpecRegions == InitEdit /\ [][NextRegions]_vars

\* The result screen while the store's batch shrinks under it: the effect,
\* the extractions it has started and removeImage
NextStale ==
  \/ ExtractTextStart
  \/ \E r \in 1..Len(extractRuns), outcome \in OcrOutcomes : BatchOcrImageDone(r, outcome)
  \/ \E r \in 1..Len(extractRuns) : ExtractTextFinish(r)
  \/ \E r \in 1..Len(extractRuns), t \in 0..MaxClock : ExtractTextDummyFinish(r, t)
  \/ \E img \in ImageIds : RemoveImage(img)

SpecStale == Init /\ [][NextStale]_vars

\* The step of ExtractTextFinish as its run sees it: the await of line 111
\* has resolved and the run leaves the ones in flight.  Of the steps of
\* NextStale exactly those of ExtractTextFinish are such steps, and it is
\* enabled exactly when ExtractTextFinish is.
ExtractTextResumes(r) ==
  /\ apiKeySet
  /\ r \in 1..Len(extractRuns)
  /\ Len(extractRuns[r].results) = Len(extractRuns[r].imgs)
  /\ extractRuns' = RemoveAt(extractRuns, r)

\* The same screen with its scheduling: a pending effect runs after the
\* render that made it due, a request of performStructuredOCR settles (it
\* resolves, or it rejects and is caught at google-vision.ts lines 343-346),
\* the continuation of a settled await runs, and the timer of 1000 ms fires
ExtractionFairness ==
  /\ WF_vars(ExtractTextStart)
  /\ WF_vars(\E r \in 1..Len(extractRuns), outcome \in OcrOutcomes : BatchOcrImageDone(r, outcome))
  /\ WF_extractRuns(\E r \in 1..Len(extractRuns) : ExtractTextResumes(r))
  /\ WF_vars(\E r \in 1..Len(extractRuns), t \in 0..MaxClock : ExtractTextDummyFinish(r, t))

SpecLoading == Init /\ [][NextStale]_vars /\ ExtractionFairness

(***************************************************************************)
(* ManualExtractScreen (manual-extract.tsx): selecting text lines.         *)
(***************************************************************************)
\* the lines performOCRWithBoundingBox finds, with their boxes already
\* scaled to the display (lines 114-131)
LineCatalog ==
  { <<>>,
    << [id |-> "line-0-0", scaledBox |-> [x |-> 0, y |-> 0, width |-> 10, height |-> 4]],
       [id |-> "line-0-1", scaledBox |-> [x |-> 0, y |-> 6, width |-> 10, height |-> 4]] >>,
    << [id |-> "line-0-0", scaledBox |-> [x |-> 0, y |-> 0, width |-> 4, height |-> 4]],
       [id |-> "line-1-0", scaledBox |-> [x |-> 8, y |-> 8, width |-> 4, height |-> 4]] >>,
    << [id |-> "line-0-0", scaledBox |-> [x |-> 0, y |-> 0, width |-> 10, height |-> 2]],
       [id |-> "line-0-1", scaledBox |-> [x |-> 0, y |-> 4, width |-> 10, height |-> 2]],
       [id |-> "line-1-0", scaledBox |-> [x |-> 0, y |-> 8, width |-> 10, height |-> 2]] >> }

\* where a gesture starts (locationX, locationY)
GrantPoints == {[x |-> 1, y |-> 1], [x |-> 5, y |-> 5], [x |-> 12, y |-> 12],
                [x |-> 20, y |-> 20]}

\* the accumulated distance (gestureState.dx, gestureState.dy) of a move
Deltas == {[dx |-> 0, dy |-> 0], [dx |-> 4, dy |-> 4],
           [dx |-> 0 - 4, dy |-> 0 - 4], [dx |-> 9, dy |-> 0]}

Max(a, b) == IF a >= b THEN a ELSE b

\* checkIntersection taking selStart for the top-left corner and selEnd for
\* the bottom-right one
checkIntersection_forwardOnly(lineBox, selStart, selEnd) ==
  ~(selEnd.x < lineBox.x \/ selStart.x > lineBox.x + lineBox.width
    \/ selEnd.y < lineBox.y \/ selStart.y > lineBox.y + lineBox.height)

\* lines 160-176
checkIntersection(lineBox, selStart, selEnd) ==
  LET selLeft == Min(selStart.x, selEnd.x)
      selRight == Max(selStart.x, selEnd.x)
      selTop == Min(selStart.y, selEnd.y)
      selBottom == Max(selStart.y, selEnd.y)
      lineLeft == lineBox.x
      lineRight == lineBox.x + lineBox.width
      lineTop == lineBox.y
      lineBottom == lineBox.y + lineBox.height
  IN  ~(selRight < lineLeft \/ selLeft > lineRight
        \/ selBottom < lineTop \/ selTop > lineBottom)

\* lines 179-189: the updater updateSelectionFromDrag hands to setTextLines
updateSelectionFromDrag(prev, start, end) ==
  [i \in 1..Len(prev) |->
    [prev[i] EXCEPT !.selected = checkIntersection(prev[i].scaledBox, start, end)]]

SetAllSelected(prev, v) ==
  [i \in 1..Len(prev) |-> [prev[i] EXCEPT !.selected = v]]

\* lines 192-193: PanResponder.create is evaluated at every render, and
\* useRef keeps the responder of the first one; the selectionStart its
\* handlers read is the constant of that render, useState's initial null
CapturedSelectionStart == <<>>

\* lines 98-137: loadImageAndOCR after performOCRWithBoundingBox resolved
LoadImageAndOCRDone(lines) ==
  /\ manualIsLoading
  /\ manualIsLoading' = FALSE
  /\ textLines' = [i \in 1..Len(lines) |->
                    [id |-> lines[i].id, scaledBox |-> lines[i].scaledBox,
                     selected |-> FALSE]]
  /\ UNCHANGED <<textVars, harnessVars, ocrVars, selectionVars, selectionStart,
                 selectionEnd, isDragging, touch>>

\* onPanResponderGrant without its setTextLines
OnPanResponderGrant_keepsSelection(p) ==
  /\ ~manualIsLoading
  /\ ~touch.down
  /\ touch' = [down |-> TRUE, x0 |-> p.x, y0 |-> p.y, dx |-> 0, dy |-> 0,
               moved |-> FALSE,
               hadSelection |-> \E i \in 1..Len(textLines) : textLines[i].selected]
  /\ selectionStart' = <<p>>
  /\ selectionEnd' = <<p>>
  /\ isDragging' = TRUE
  /\ UNCHANGED <<textVars, harnessVars, ocrVars, selectionVars, manualIsLoading,
                 textLines>>

\* lines 197-205
OnPanResponderGrant(p) ==
  /\ ~manualIsLoading
  /\ ~touch.down
  /\ touch' = [down |-> TRUE, x0 |-> p.x, y0 |-> p.y, dx |-> 0, dy |-> 0,
               moved |-> FALSE,
               hadSelection |-> \E i \in 1..Len(textLines) : textLines[i].selected]
  /\ selectionStart' = <<p>>
  /\ selectionEnd' = <<p>>
  /\ isDragging' = TRUE
  /\ textLines' = SetAllSelected(textLines, FALSE)
  /\ UNCHANGED <<textVars, harnessVars, ocrVars, selectionVars, manualIsLoading>>

\* lines 207-216
OnPanResponderMove(d) ==
  /\ touch.down
  /\ touch' = [touch EXCEPT !.dx = d.dx, !.dy = d.dy, !.moved = TRUE]
  /\ IF CapturedSelectionStart # <<>>
     THEN LET newEnd == [x |-> CapturedSelectionStart[1].x + d.dx,
                         y |-> CapturedSelectionStart[1].y + d.dy]
          IN  /\ selectionEnd' = <<newEnd>>
              /\ textLines' = updateSelectionFromDrag(
                                textLines, CapturedSelectionStart[1], newEnd)
     ELSE UNCHANGED <<selectionEnd, textLines>>
  /\ UNCHANGED <<textVars, harnessVars, ocrVars, selectionVars, selectionStart, isDragging,
                 manualIsLoading>>

\* lines 218-221
OnPanResponderRelease ==
  /\ touch.down
  /\ touch' = NoTouch
  /\ isDragging' = FALSE
  /\ UNCHANGED <<textVars, harnessVars, ocrVars, selectionVars, textLines, selectionStart,
                 selectionEnd, manualIsLoading>>

\* lines 226-235
handleLineTap(lineId) ==
  /\ ~manualIsLoading
  /\ ~touch.down
  /\ \E i \in 1..Len(textLines) : textLines[i].id = lineId
  /\ textLines' = [i \in 1..Len(textLines) |->
                    IF textLines[i].id = lineId
                    THEN [textLines[i] EXCEPT !.selected = ~@]
                    ELSE textLines[i]]
  /\ selectionStart' = <<>>
  /\ selectionEnd' = <<>>
  /\ UNCHANGED <<textVars, harnessVars, ocrVars, selectionVars, isDragging,
                 manualIsLoading, touch>>

\* lines 238-241
handleSelectAll ==
  /\ ~manualIsLoading
  /\ ~touch.down
  /\ LET allSelected == \A i \in 1..Len(textLines) : textLines[i].selected
     IN  textLines' = SetAllSelected(textLines, ~allSelected)
  /\ UNCHANGED <<textVars, harnessVars, ocrVars, selectionVars, selectionStart,
                 selectionEnd, isDragging, manualIsLoading, touch>>

\* lines 244-248
handleClearSelection ==
  /\ ~manualIsLoading
  /\ ~touch.down
  /\ textLines' = SetAllSelected(textLines, FALSE)
  /\ selectionStart' = <<>>
  /\ selectionEnd' = <<>>
  /\ UNCHANGED <<textVars, harnessVars, ocrVars, selectionVars, isDragging,
                 manualIsLoading, touch>>

LineIds == {"line-0-0", "line-0-1", "line-1-0"}

InitDrag ==
  /\ InitTextVars
  /\ InitScreenVars
  /\ InitDragVars
  /\ InitHarnessVars
  /\ apiKeySet = TRUE
  /\ images = <<>>

NextDrag ==
  \/ \E lines \in LineCatalog : LoadImageAndOCRDone(lines)
  \/ \E p \in GrantPoints : OnPanResponderGrant(p)
  \/ \E d \in Deltas : OnPanResponderMove(d)
  \/ OnPanResponderRelease
  \/ \E lineId \in LineIds : handleLineTap(lineId)
  \/ handleSelectAll
  \/ handleClearSelection

SpecDrag == InitDrag /\ [][NextDrag]_vars

(***************************************************************************)
(* checkIntersection on the boxes and points of a small grid.              *)
(***************************************************************************)
GeoCoords == {0, 4, 6, 8, 10}
GeoPoints == {[x |-> a, y |-> b] : a \in GeoCoords, b \in GeoCoords}
GeoBoxes == {[x |-> 4, y |-> 4, width |-> 4, height |-> 4],
             [x |-> 0, y |-> 6, width |-> 10, height |-> 2]}

InitGeom ==
  /\ InitTextVars
  /\ InitScreenVars
  /\ InitDragVars
  /\ InitQuoteVars
  /\ InitCaptureVars
  /\ InitSaveVars
  /\ InitCropVars
  /\ apiKeySet = TRUE
  /\ images = <<>>
  /\ geoLineBox \in GeoBoxes
  /\ geoSelStart \in GeoPoints
  /\ geoSelEnd \in GeoPoints
  /\ geoCalled = FALSE
  /\ geoResult = FALSE
  /\ InitBatchVars
  /\ InitParseVars

CallCheckIntersection ==
  /\ ~geoCalled
  /\ geoCalled' = TRUE
  /\ geoResult' = checkIntersection(geoLineBox, geoSelStart, geoSelEnd)
  /\ UNCHANGED <<textVars, ocrVars, selectionVars, dragVars, quoteVars, captureVars, saveVars, cropVars, batchVars, parseVars,
                 geoLineBox, geoSelStart, geoSelEnd>>

NextGeom == CallCheckIntersection

SpecGeom == InitGeom /\ [][NextGeom]_vars

(***************************************************************************)
(* performBatchStructuredOCR (google-vision.ts lines 326-352).             *)
(***************************************************************************)
\* the uris of the images of a batch: one per image
UriBatches == {<<>>, <<"uri1">>, <<"uri1", "uri2">>}

\* lines 338 and 341-348: what the loop stores for an image, from the
\* outcome of its performStructuredOCR
BatchOutcomeResult(outcome) ==
  IF outcome.ok THEN outcome.result ELSE EmptyResult

\* Map.prototype.set forgetting the entries of the other keys
MapSet_forgetting(map, key, value) == <<[key |-> key, value |-> value]>>

\* Map.prototype.set (lines 339 and 342): the entry of the key is replaced
\* where it stands, a new key is added at the end
MapSet(map, key, value) ==
  IF \E e \in 1..Len(map) : map[e].key = key
  THEN [e \in 1..Len(map) |->
         IF map[e].key = key THEN [key |-> key, value |-> value] ELSE map[e]]
  ELSE Append(map, [key |-> key, value |-> value])

InitBatch ==
  /\ InitTextVars
  /\ InitScreenVars
  /\ InitDragVars
  /\ InitQuoteVars
  /\ InitCaptureVars
  /\ InitSaveVars
  /\ InitCropVars
  /\ InitGeomVars
  /\ InitParseVars
  /\ apiKeySet = TRUE
  /\ images = <<>>
  /\ batchUris \in UriBatches
  /\ batchOnProgress \in BOOLEAN
  /\ batchIndex = 1
  /\ batchStage = "loop"
  /\ batchResults = <<>>
  /\ batchLog = <<>>

\* lines 334-338: the loop enters its body for image i, calls onProgress
\* and then performStructuredOCR, at whose await it stops
BatchCallStart ==
  /\ batchStage = "loop"
  /\ batchIndex <= Len(batchUris)
  /\ batchStage' = "called"
  /\ batchLog' = batchLog
       \o (IF batchOnProgress
           THEN <<[event |-> "onProgress", current |-> batchIndex,
                   total |-> Len(batchUris), result |-> EmptyResult]>>
           ELSE <<>>)
       \o <<[event |-> "ocrStarted", current |-> batchIndex,
             total |-> Len(batchUris), result |-> EmptyResult]>>
  /\ UNCHANGED <<textVars, ocrVars, selectionVars, dragVars, quoteVars, captureVars, saveVars, cropVars, geomVars, parseVars,
                 batchUris, batchOnProgress, batchIndex, batchResults>>

\* lines 338-348: performStructuredOCR resolves or throws, and the loop
\* stores the image's result and goes on
BatchCallDone(outcome) ==
  /\ batchStage = "called"
  /\ batchResults' = MapSet(batchResults, batchUris[batchIndex],
                            BatchOutcomeResult(outcome))
  /\ batchLog' = Append(batchLog,
                        [event |-> IF outcome.ok THEN "ocrResolved"
                                   ELSE "ocrThrew",
                         current |-> batchIndex,
                         total |-> Len(batchUris),
                         result |-> outcome.result])
  /\ batchIndex' = batchIndex + 1
  /\ batchStage' = "loop"
  /\ UNCHANGED <<textVars, ocrVars, selectionVars, dragVars, quoteVars, captureVars, saveVars, cropVars, geomVars, parseVars,
                 batchUris, batchOnProgress>>

\* lines 334 and 351: the loop is over, the Map is returned
BatchReturn ==
  /\ batchStage = "loop"
  /\ batchIndex > Len(batchUris)
  /\ batchStage' = "returned"
  /\ UNCHANGED <<textVars, ocrVars, selectionVars, dragVars, quoteVars, captureVars, saveVars, cropVars, geomVars, parseVars,
                 batchUris, batchOnProgress, batchIndex, batchResults,
                 batchLog>>

NextBatch ==
  \/ BatchCallStart
  \/ \E o \in OcrOutcomes : BatchCallDone(o)
  \/ BatchReturn

SpecBatch == InitBatch /\ [][NextBatch]_vars

(***************************************************************************)
(* parseGeminiResponse (google-vision.ts lines 232-269) on bounded         *)
(* response texts.  A well-formed JSON document is one character of the    *)
(* text, named after the value JSON.parse gives for it; every other        *)
(* character is itself.                                                    *)
(***************************************************************************)
\* number of pieces a response text is built from
MaxResponsePieces == 4

\* JavaScript values, as far as Array.isArray and typeof tell them apart
JsUndefined == [type |-> "undefined", items |-> <<>>, str |-> <<>>, num |-> 0]
JsNull == [type |-> "null", items |-> <<>>, str |-> <<>>, num |-> 0]
JsArray(items) == [type |-> "array", items |-> items, str |-> <<>>, num |-> 0]
JsString(str) == [type |-> "string", items |-> <<>>, str |-> str, num |-> 0]
JsNumber(num) == [type |-> "number", items |-> <<>>, str |-> <<>>, num |-> num]

JsObject(p, u, b, n) ==
  [type |-> "object", paragraphs |-> p, underlinedSentences |-> u,
   bookTitle |-> b, pageNumber |-> n]
\* a value without properties of its own: every property reads undefined
JsPrimitive(type) ==
  [type |-> type, paragraphs |-> JsUndefined, underlinedSentences |-> JsUndefined,
   bookTitle |-> JsUndefined, pageNumber |-> JsUndefined]

\* the documents of the model, and what JSON.parse makes of each
JsonDocuments ==
  [d \in {"{both}", "{paragraphsString}", "{underlinedMissing}",
          "{underlinedNull}", "null", "7"} |->
     CASE d = "{both}" ->
            JsObject(JsArray(<<ParaTwoSentences>>), JsArray(<<WordB>>),
                     JsString(WordA), JsNumber(7))
       [] d = "{paragraphsString}" ->
            JsObject(JsString(ParaOneSentence), JsArray(<<WordB>>),
                     JsNumber(7), JsString(WordA))
       [] d = "{underlinedMissing}" ->
            JsObject(JsArray(<<ParaOneSentence>>), JsUndefined, JsNull, JsNull)
       [] d = "{underlinedNull}" ->
            JsObject(JsObject(JsUndefined, JsUndefined, JsUndefined, JsUndefined),
                     JsNull, JsUndefined, JsUndefined)
       [] d = "null" -> JsPrimitive("null")
       [] d = "7" -> JsPrimitive("number")]

\* three grave accents, each named by its code point
FENCE == <<"U+0060", "U+0060", "U+0060">>
FENCE_JSON == FENCE \o <<"j", "s", "o", "n">>

ResponsePieces ==
  {<<SP>>, <<NL>>, FENCE, FENCE_JSON, <<"a">>, <<"{">>}
    \cup {<<d>> : d \in DOMAIN JsonDocuments}

\* index of the first occurrence of pat in s at or after i (0 if none)
RECURSIVE IndexOfFrom(_, _, _)
IndexOfFrom(s, i, pat) ==
  IF i + Len(pat) - 1 > Len(s) THEN 0
  ELSE IF MatchAt(s, i, pat) THEN i ELSE IndexOfFrom(s, i + 1, pat)

\* line 243, jsonStr.match of the fenced block: the leftmost FENCE_JSON that
\* has a FENCE after it, and as group 1 what lies between them without the
\* whitespace at its two ends (\s* on both sides of the lazy group)
JsonBlockMatch(jsonStr) ==
  LET open == IndexOfFrom(jsonStr, 1, FENCE_JSON)
      from == IF open = 0 THEN 0 ELSE SkipWs(jsonStr, open + Len(FENCE_JSON))
      close == IF open = 0 THEN 0 ELSE IndexOfFrom(jsonStr, from, FENCE)
  IN  IF close = 0
      THEN [matched |-> FALSE, group |-> <<>>]
      ELSE [matched |-> TRUE,
            group |-> SubSeq(jsonStr, from, SkipWsBack(jsonStr, close - 1))]

StartsWith(s, pat) == MatchAt(s, 1, pat)
EndsWith(s, pat) == Len(s) >= Len(pat) /\ MatchAt(s, Len(s) - Len(pat) + 1, pat)

\* lines 242-248: the text JSON.parse is given
ExtractJsonStr(text) ==
  LET jsonStr == Trim(text)
      jsonMatch == JsonBlockMatch(jsonStr)
  IN  IF jsonMatch.matched THEN jsonMatch.group
      ELSE IF StartsWith(jsonStr, FENCE) /\ EndsWith(jsonStr, FENCE)
           THEN Trim(SubSeq(jsonStr, Len(FENCE) + 1, Len(jsonStr) - Len(FENCE)))
           ELSE jsonStr

\* JSON.parse: one document, with whitespace allowed around it; everything
\* else is a SyntaxError
JSONParse(jsonStr) ==
  LET t == Trim(jsonStr)
  IN  IF Len(t) = 1 /\ t[1] \in DOMAIN JsonDocuments
      THEN [threw |-> FALSE, value |-> JsonDocuments[t[1]]]
      ELSE [threw |-> TRUE, value |-> JsPrimitive("undefined")]

defaultResult ==
  [paragraphs |-> <<>>, underlinedSentences |-> <<>>,
   bookTitle |-> JsNull, pageNumber |-> JsNull]

\* lines 252-257: the result made of a parsed value
ResultOfParsed(parsed) ==
  [paragraphs |->
     IF parsed.paragraphs.type = "array" THEN parsed.paragraphs.items ELSE <<>>,
   underlinedSentences |->
     IF parsed.underlinedSentences.type = "array"
     THEN parsed.underlinedSentences.items ELSE <<>>,
   bookTitle |->
     IF parsed.bookTitle.type = "string" THEN parsed.bookTitle ELSE JsNull,
   pageNumber |->
     IF parsed.pageNumber.type = "number" THEN parsed.pageNumber ELSE JsNull]

FallbackResult_discarding(text) == defaultResult

\* lines 258-267: the catch block
FallbackResult(text) ==
  IF Trim(text) # <<>>
  THEN [defaultResult EXCEPT !.paragraphs = <<Trim(text)>>]
  ELSE defaultResult

\* lines 232-269; reading a property of null throws a TypeError inside the
\* try as a SyntaxError of JSON.parse does
parseGeminiResponse(text) ==
  LET parsed == JSONParse(ExtractJsonStr(text))
  IN  IF parsed.threw \/ parsed.value.type = "null"
      THEN FallbackResult(text)
      ELSE ResultOfParsed(parsed.value)

InitParse ==
  /\ InitTextVars
  /\ InitScreenVars
  /\ InitDragVars
  /\ InitQuoteVars
  /\ InitCaptureVars
  /\ InitSaveVars
  /\ InitCropVars
  /\ InitGeomVars
  /\ InitBatchVars
  /\ apiKeySet = TRUE
  /\ images = <<>>
  /\ responseText = <<>>
  /\ parseCalled = FALSE
  /\ parseResult = defaultResult

\* the response text grows by one piece
AppendResponsePiece(piece) ==
  /\ ~parseCalled
  /\ Len(responseText) < MaxResponsePieces
  /\ responseText' = Append(responseText, piece)
  /\ UNCHANGED <<textVars, ocrVars, selectionVars, dragVars, quoteVars, captureVars, saveVars, cropVars, geomVars, batchVars,
                 parseCalled, parseResult>>

CallParseGeminiResponse ==
  /\ ~parseCalled
  /\ parseCalled' = TRUE
  /\ parseResult' = parseGeminiResponse(Flatten(responseText))
  /\ UNCHANGED <<textVars, ocrVars, selectionVars, dragVars, quoteVars, captureVars, saveVars, cropVars, geomVars, batchVars,
                 responseText>>

NextParse ==
  \/ \E piece \in ResponsePieces : AppendResponsePiece(piece)
  \/ CallParseGeminiResponse

SpecParse == InitParse /\ [][NextParse]_vars

(***************************************************************************)
(* The crop region of handleExtractSelection (ocr-result.tsx lines         *)
(* 273-284) on bounded selections, image sizes and display sizes.  The     *)
(* quotients are exact: scaleX is the fraction imageInfo.width /           *)
(* imageLayout.width.                                                      *)
(***************************************************************************)
MathRound_truncating(a, b) == a \div b

\* Math.round of the fraction a / b, b > 0: the nearest integer, a half
\* going up
MathRound(a, b) == (2 * a + b) \div (2 * b)

\* lines 275-284
CropRegionOf(rect, imageInfo, layout) ==
  [originX |-> MathRound(rect.x * imageInfo.width, layout.width),
   originY |-> MathRound(rect.y * imageInfo.height, layout.height),
   width |-> MathRound(rect.width * imageInfo.width, layout.width),
   height |-> MathRound(rect.height * imageInfo.height, layout.height)]

CropOrigins == {0, 1, 5}
CropSides == {20, 25, 33}
CropSelections ==
  [x : CropOrigins, y : CropOrigins, width : CropSides, height : CropSides]
CropImageSizes == {[width |-> 100, height |-> 100],
                   [width |-> 200, height |-> 100],
                   [width |-> 150, height |-> 310]}
CropLayouts == {[width |-> 100, height |-> 100], [width |-> 80, height |-> 60]}

InitCrop ==
  /\ InitTextVars
  /\ InitScreenVars
  /\ InitDragVars
  /\ InitQuoteVars
  /\ InitCaptureVars
  /\ InitSaveVars
  /\ InitGeomVars
  /\ InitBatchVars
  /\ InitParseVars
  /\ apiKeySet = TRUE
  /\ images = <<>>
  /\ cropSelection \in CropSelections
  /\ cropImageInfo \in CropImageSizes
  /\ cropLayout \in CropLayouts
  /\ cropCalled = FALSE
  /\ cropRegion = [originX |-> 0, originY |-> 0, width |-> 0, height |-> 0]

ComputeCropRegion ==
  /\ ~cropCalled
  /\ cropCalled' = TRUE
  /\ cropRegion' = CropRegionOf(cropSelection, cropImageInfo, cropLayout)
  /\ UNCHANGED <<textVars, ocrVars, selectionVars, dragVars, quoteVars, captureVars, saveVars, geomVars, batchVars, parseVars,
                 cropSelection, cropImageInfo, cropLayout>>

NextCrop == ComputeCropRegion

SpecCrop == InitCrop /\ [][NextCrop]_vars

(***************************************************************************)
(* The capture flow up to the preview: the camera screen                   *)
(* (src/unnamed/part_007), preview.tsx and the images of the capture       *)
(* store.  The system pickers are modal and give at most selectionLimit    *)
(* assets; a handler with its awaits is one step.                          *)
(***************************************************************************)
\* number of images made in one behaviour
MaxImagesMade == 12

\* the 10 of preview.tsx line 48 and of selectionLimit (part_007 line 80)
MAX_IMAGES == 10

\* processImages (part_007 lines 27-39): n new images, named by their numbers
NewImages(n) == [k \in 1..n |-> imagesMade + k]

\* capture-store.ts lines 53-57
AddImages(newImages) == images' = images \o newImages

\* the capture flow is opened from the tabs
OpenCapture ==
  /\ captureScreen = "closed"
  /\ captureScreen' = "camera"
  /\ UNCHANGED <<textVars, ocrVars, selectionVars, dragVars, quoteVars, saveVars, geomVars, batchVars, parseVars,
                 cropVars, imagesMade>>

\* part_007 lines 23-26: handleClose
HandleClose ==
  /\ captureScreen = "camera"
  /\ captureScreen' = "closed"
  /\ images' = <<>>
  /\ UNCHANGED <<textVars, selectionVars, dragVars, saveVars, quoteVars, geomVars, batchVars, parseVars, cropVars,
                 apiKeySet, sentences, isLoading, effectDue, extractRuns,
                 isExtractingSelection, manualRuns, manualStarted, now, emitted,
                 events, alert, imagesMade>>

\* part_007 lines 41-62 (handleCamera, n <= 1) and 64-88 (handleGallery,
\* n <= selectionLimit): n is the number of assets of the result, 0 for a
\* permission that is not granted or a picker that is cancelled
HandleCameraOrGallery(n) ==
  /\ captureScreen = "camera"
  /\ n <= MAX_IMAGES
  /\ imagesMade + n <= MaxImagesMade
  /\ IF n > 0
     THEN /\ AddImages(NewImages(n))
          /\ imagesMade' = imagesMade + n
          /\ captureScreen' = "preview"
     ELSE UNCHANGED <<images, imagesMade, captureScreen>>
  /\ UNCHANGED <<textVars, selectionVars, dragVars, saveVars, quoteVars, geomVars, batchVars, parseVars, cropVars,
                 apiKeySet, sentences, isLoading, effectDue, extractRuns,
                 isExtractingSelection, manualRuns, manualStarted, now, emitted,
                 events, alert>>

\* preview.tsx lines 46-78: handleAddMore; the button is rendered while
\* images.length < 10 (line 168)
HandleAddMore(n) ==
  /\ captureScreen = "preview"
  /\ Len(images) < MAX_IMAGES
  /\ LET remainingSlots == MAX_IMAGES - Len(images)
     IN  /\ remainingSlots > 0
         /\ n <= remainingSlots
  /\ imagesMade + n <= MaxImagesMade
  /\ IF n > 0
     THEN /\ AddImages(NewImages(n))
          /\ imagesMade' = imagesMade + n
     ELSE UNCHANGED <<images, imagesMade>>
  /\ UNCHANGED <<textVars, selectionVars, dragVars, saveVars, quoteVars, geomVars, batchVars, parseVars, cropVars,
                 apiKeySet, sentences, isLoading, effectDue, extractRuns,
                 isExtractingSelection, manualRuns, manualStarted, now, emitted,
                 events, alert, captureScreen>>

\* preview.tsx lines 24-44: handleRemoveImage; the last image is removed
\* after a confirmation, and the screen is left
HandleRemoveImage(id, confirmed) ==
  /\ captureScreen = "preview"
  /\ \E k \in 1..Len(images) : images[k] = id
  /\ IF Len(images) = 1
     THEN IF confirmed
          THEN /\ images' = SelectSeq(images, LAMBDA i : i # id)
               /\ captureScreen' = "camera"
          ELSE UNCHANGED <<images, captureScreen>>
     ELSE /\ images' = SelectSeq(images, LAMBDA i : i # id)
          /\ UNCHANGED captureScreen
  /\ UNCHANGED <<textVars, selectionVars, dragVars, saveVars, quoteVars, geomVars, batchVars, parseVars, cropVars,
                 apiKeySet, sentences, isLoading, effectDue, extractRuns,
                 isExtractingSelection, manualRuns, manualStarted, now, emitted,
                 events, alert, imagesMade>>

\* the back button of the header of the preview ((capture)/_layout.tsx lines
\* 29-35): the camera screen is on top again, the store is as it was
PreviewBack ==
  /\ captureScreen = "preview"
  /\ captureScreen' = "camera"
  /\ UNCHANGED <<textVars, ocrVars, selectionVars, dragVars, quoteVars, saveVars, geomVars, batchVars, parseVars,
                 cropVars, imagesMade>>

InitCapture ==
  /\ InitTextVars
  /\ InitScreenVars
  /\ InitDragVars
  /\ InitQuoteVars
  /\ InitSaveVars
  /\ InitGeomVars
  /\ InitBatchVars
  /\ InitParseVars
  /\ InitCropVars
  /\ apiKeySet = TRUE
  /\ images = <<>>
  /\ captureScreen = "closed"
  /\ imagesMade = 0

NextCapture ==
  \/ OpenCapture
  \/ HandleClose
  \/ \E n \in 0..MAX_IMAGES : HandleCameraOrGallery(n)
  \/ \E n \in 0..MAX_IMAGES : HandleAddMore(n)
  \/ \E id \in 1..MaxImagesMade, confirmed \in BOOLEAN : HandleRemoveImage(id, confirmed)
  \/ PreviewBack

SpecCapture == InitCapture /\ [][NextCapture]_vars

(***************************************************************************)
(* useQuotesStore (src/unnamed/part_000): the local list of notes and the  *)
(* operations that await the backend.  A note is its id and the revision   *)
(* of its text; a call that awaits is one step up to its await and one     *)
(* step for the continuation or the catch, taken in any order.  One        *)
(* deleteQuote is in flight at a time.                                     *)
(***************************************************************************)
\* store operations besides deleteQuote started in one behaviour
MaxQuoteOps == 2

\* calls of deleteQuote in one behaviour
MaxDeletes == 2

\* notes handed to one call of saveQuotes
MaxNotesPerSave == 2

\* the notes the list starts with (fetchQuotes, lines 72-81)
FetchedNotes == 2

Note(id, rev) == [id |-> id, rev |-> rev]

\* quotes.filter((q) => q.id !== id): lines 64 and 158
WithoutQuote(list, id) == SelectSeq(list, LAMBDA q : q.id # id)

\* quotes.map((q) => (q.id === id ? updatedNote : q)): line 144
WithUpdatedNote(list, id, updatedNote) ==
  [k \in 1..Len(list) |-> IF list[k].id = id THEN updatedNote ELSE list[k]]

\* the notes db.createNotes answers with: n notes with new ids
CreatedNotes(n) == [k \in 1..n |-> Note(notesCreated + k, 0)]

\* the list without the delete in flight takes every other operation too
Undeleted(list) == IF deleteRuns = <<>> THEN <<>> ELSE list

otherVarsOfQuotes ==
  <<textVars, ocrVars, selectionVars, dragVars, geomVars, batchVars, parseVars,
    cropVars, saveVars, captureVars>>

\* lines 103-119: saveQuotes up to its await
SaveQuotesCall(n) ==
  /\ quoteOps < MaxQuoteOps
  /\ quoteOps' = quoteOps + 1
  /\ isSyncing' = TRUE
  /\ quoteRequests' = Append(quoteRequests, [op |-> "saveQuotes", n |-> n, id |-> 0])
  /\ UNCHANGED <<otherVarsOfQuotes, quotes, quotesError, deleteRuns, quotesUndeleted,
                 notesCreated, deletesStarted>>

\* lines 121-136: saveQuotes after db.createNotes has settled
SaveQuotesSettle(k, ok) ==
  /\ k \in 1..Len(quoteRequests)
  /\ quoteRequests[k].op = "saveQuotes"
  /\ quoteRequests' = RemoveAt(quoteRequests, k)
  /\ isSyncing' = FALSE
  /\ IF ok
     THEN LET notes == CreatedNotes(quoteRequests[k].n)
          IN  /\ quotes' = notes \o quotes
              /\ quotesUndeleted' = Undeleted(notes \o quotesUndeleted)
              /\ notesCreated' = notesCreated + Len(notes)
              /\ UNCHANGED quotesError
     ELSE /\ quotesError' = "save failed"
          /\ UNCHANGED <<quotes, quotesUndeleted, notesCreated>>
  /\ UNCHANGED <<otherVarsOfQuotes, deleteRuns, quoteOps, deletesStarted>>

\* lines 139-141: syncUpdateQuote up to its await
SyncUpdateQuoteCall(id) ==
  /\ quoteOps < MaxQuoteOps
  /\ quoteOps' = quoteOps + 1
  /\ isSyncing' = TRUE
  /\ quoteRequests' = Append(quoteRequests, [op |-> "syncUpdateQuote", n |-> 0, id |-> id])
  /\ UNCHANGED <<otherVarsOfQuotes, quotes, quotesError, deleteRuns, quotesUndeleted,
                 notesCreated, deletesStarted>>

\* lines 142-151: syncUpdateQuote after db.updateNote has settled; the
\* updated note is the note with its next text
SyncUpdateQuoteSettle(k, ok) ==
  /\ k \in 1..Len(quoteRequests)
  /\ quoteRequests[k].op = "syncUpdateQuote"
  /\ quoteRequests' = RemoveAt(quoteRequests, k)
  /\ isSyncing' = FALSE
  /\ IF ok
     THEN LET updatedNote == Note(quoteRequests[k].id, 1)
          IN  /\ quotes' = WithUpdatedNote(quotes, quoteRequests[k].id, updatedNote)
              /\ quotesUndeleted' =
                   Undeleted(WithUpdatedNote(quotesUndeleted, quoteRequests[k].id, updatedNote))
              /\ UNCHANGED quotesError
     ELSE /\ quotesError' = "update failed"
          /\ UNCHANGED <<quotes, quotesUndeleted>>
  /\ UNCHANGED <<otherVarsOfQuotes, deleteRuns, notesCreated, quoteOps, deletesStarted>>

\* lines 62-65: removeQuote
RemoveQuote(id) ==
  /\ quoteOps < MaxQuoteOps
  /\ quoteOps' = quoteOps + 1
  /\ quotes' = WithoutQuote(quotes, id)
  /\ quotesUndeleted' = Undeleted(WithoutQuote(quotesUndeleted, id))
  /\ UNCHANGED <<otherVarsOfQuotes, isSyncing, quotesError, quoteRequests, deleteRuns,
                 notesCreated, deletesStarted>>

\* lines 154-160: deleteQuote up to its await
DeleteQuoteCall(id) ==
  /\ deletesStarted < MaxDeletes
  /\ deleteRuns = <<>>
  /\ deletesStarted' = deletesStarted + 1
  /\ LET currentQuotes == quotes
     IN  /\ quotes' = WithoutQuote(currentQuotes, id)
         /\ deleteRuns' = <<[id |-> id, currentQuotes |-> currentQuotes]>>
  /\ isSyncing' = TRUE
  /\ quotesUndeleted' = quotes
  /\ UNCHANGED <<otherVarsOfQuotes, quotesError, quoteRequests, notesCreated, quoteOps>>

\* lines 162-174: deleteQuote after db.deleteNote has settled
DeleteQuoteSettle(ok) ==
  /\ deleteRuns # <<>>
  /\ deleteRuns' = <<>>
  /\ isSyncing' = FALSE
  /\ quotesUndeleted' = <<>>
  /\ IF ok
     THEN UNCHANGED <<quotes, quotesError>>
     ELSE /\ quotes' = deleteRuns[1].currentQuotes
          /\ quotesError' = "delete failed"
  /\ UNCHANGED <<otherVarsOfQuotes, quoteRequests, notesCreated, quoteOps, deletesStarted>>

InitQuotes ==
  /\ InitTextVars
  /\ InitScreenVars
  /\ InitDragVars
  /\ InitSaveVars
  /\ InitCaptureVars
  /\ InitGeomVars
  /\ InitBatchVars
  /\ InitParseVars
  /\ InitCropVars
  /\ apiKeySet = TRUE
  /\ images = <<>>
  /\ quotes = [k \in 1..FetchedNotes |-> Note(FetchedNotes + 1 - k, 0)]
  /\ isSyncing = FALSE
  /\ quotesError = ""
  /\ quoteRequests = <<>>
  /\ deleteRuns = <<>>
  /\ quotesUndeleted = <<>>
  /\ notesCreated = FetchedNotes
  /\ quoteOps = 0
  /\ deletesStarted = 0

NextQuotes ==
  \/ \E n \in 1..MaxNotesPerSave : SaveQuotesCall(n)
  \/ \E k \in 1..Len(quoteRequests), ok \in BOOLEAN : SaveQuotesSettle(k, ok)
  \/ \E k \in 1..Len(quotes) : SyncUpdateQuoteCall(quotes[k].id)
  \/ \E k \in 1..Len(quoteRequests), ok \in BOOLEAN : SyncUpdateQuoteSettle(k, ok)
  \/ \E k \in 1..Len(quotes) : RemoveQuote(quotes[k].id)
  \/ \E k \in 1..Len(quotes) : DeleteQuoteCall(quotes[k].id)
  \/ \E ok \in BOOLEAN : DeleteQuoteSettle(ok)

SpecQuotes == InitQuotes /\ [][NextQuotes]_vars

(***************************************************************************)
(* Properties of the sentence splitter (checked under SpecText).           *)
(***************************************************************************)
TerminalCount(s) == Cardinality({i \in 1..Len(s) : s[i] \in TerminalChars})

RECURSIVE TerminalCountAll(_)
TerminalCountAll(ss) ==
  IF ss = <<>> THEN 0 ELSE TerminalCount(Head(ss)) + TerminalCountAll(Tail(ss))

HasChar(s, c) == \E i \in 1..Len(s) : s[i] = c

\* the run of two or more newlines that comes first in s starts at i
FirstBlankLineAt(s, i) ==
  /\ i \in 1..Len(s)
  /\ s[i] = NL
  /\ SkipNl(s, i) - i >= 2
  /\ \A j \in 1..(i - 1) : ~(s[j] = NL /\ SkipNl(s, j) - j >= 2)

HasBlankLine(s) == \E i \in 1..Len(s) : FirstBlankLineAt(s, i)

\* C4: processOCRText(t) contains no sentence shorter than 5 characters,
\* sentences that cleaning shortened after segmentation included.
C4_NoShortSentence ==
  textCall = "processOCRText" =>
    \A i \in 1..Len(textOut) : Len(textOut[i]) >= 5

\* a sentence that passed the splitter's own filter and that cleaning then
\* shortened below 5 characters was dropped by processOCRText
C4_Witness ==
  /\ textCall = "processOCRText"
  /\ \E i \in 1..Len(splitIntoSentences(Text)) :
        /\ Len(splitIntoSentences(Text)[i]) >= 5
        /\ Len(cleanSentence(splitIntoSentences(Text)[i])) < 5
  /\ Len(textOut) < Len(splitIntoSentences(Text))

\* C5 (as claimed): a run of two or more newlines is a hard split point, so
\* with only the letter a before the first blank line and only the letter b
\* after it no emitted sentence holds both letters; and a text whose
\* newlines are all single is split as the same text with spaces for them.
C5_Claim ==
  textCall = "splitIntoSentences" =>
    /\ \A i \in 1..Len(Text) :
          ( /\ FirstBlankLineAt(Text, i)
            /\ ~HasChar(SubSeq(Text, 1, i - 1), "b")
            /\ ~HasChar(SubSeq(Text, i, Len(Text)), "a") )
          => \A k \in 1..Len(textOut) :
               ~(HasChar(textOut[k], "a") /\ HasChar(textOut[k], "b"))
    /\ ~HasBlankLine(Text) =>
          textOut = splitIntoSentences(ReplaceAll(Text, <<NL>>, <<SP>>))

\* C6 (as claimed): a terminal punctuation character that is followed
\* directly by a non-whitespace character does not end a sentence, so a
\* text of 5 or more characters with no whitespace in it is one sentence.
C6_Claim ==
  ( /\ textCall = "splitIntoSentences"
    /\ Len(Text) >= 5
    /\ \A i \in 1..Len(Text) : Text[i] \notin Whitespace )
  => textOut = <<Text>>

\* Text is one sentence of at least 5 characters before its terminal
\* punctuation, which is a run of one or more terminal characters
OneTerminatedSentence(s) ==
  \E n \in 1..Len(s) :
    /\ \A i \in 1..n : s[i] \notin TerminalChars \cup Whitespace
    /\ n >= 5
    /\ n < Len(s)
    /\ \A i \in (n + 1)..Len(s) : s[i] \in TerminalChars

\* C7 (as claimed): no terminal punctuation character is duplicated or
\* lost, also in a run of consecutive ones: a sentence that ends in such
\* a run is emitted with every character of the run.
C7_Claim ==
  (textCall = "splitIntoSentences" /\ OneTerminatedSentence(Text))
  => /\ TerminalCountAll(textOut) = TerminalCount(Text)
     /\ textOut = <<Text>>

\* C8 (as claimed): cleanSentence(cleanSentence(s)) = cleanSentence(s).
C8_Claim ==
  Len(cleanOut) = 2 => cleanOut[2] = cleanOut[1]

\* C9: for empty or all-whitespace input splitIntoSentences and
\* processOCRText return the empty list (the call is defined, its result
\* is a list, and the list is empty).
C9_EmptyInputEmptyList ==
  ( /\ textCall \in {"splitIntoSentences", "processOCRText"}
    /\ Len(Trim(Text)) = 0 )
  => textOut = <<>>

\* processOCRText was called on a text of whitespace only
C9_Witness ==
  /\ textCall = "processOCRText"
  /\ Len(Text) >= 2
  /\ Len(Trim(Text)) = 0
  /\ HasChar(Text, NL)
  /\ HasChar(Text, SP)

(***************************************************************************)
(* Properties of the candidate list of OCRResultScreen (checked under      *)
(* Spec).                                                                  *)
(***************************************************************************)
CandidatesOf(list, img) == SelectSeq(list, LAMBDA s : s.imageId = img)

UnderlinedFirst(g) ==
  \A a, b \in 1..Len(g) : (a < b /\ g[b].isUnderlined) => g[a].isUnderlined

EmissionOrderKept(g) ==
  \A a, b \in 1..Len(g) :
    (a < b /\ g[a].isUnderlined = g[b].isUnderlined) => g[a].seq < g[b].seq

\* C1: in the group of every image, as the screen shows it, every underlined
\* candidate comes before every candidate that is not underlined, and inside
\* each of the two the candidates stand in the order in which they were
\* emitted, also after region extractions have added candidates.
C1_Claim ==
  \A g \in 1..Len(groupedSentences) :
    /\ UnderlinedFirst(groupedSentences[g].data)
    /\ EmissionOrderKept(groupedSentences[g].data)

\* C2: when extractText finishes, every image of its batch has, for every
\* non-empty string u of its own underlinedSentences, a candidate that
\* carries u with the image's imageId, isUnderlined and selected, whatever
\* the other images of the batch contain.
C2_Claim ==
  [][\A r \in 1..Len(extractRuns) :
       ExtractTextFinish(r) =>
         \A i \in 1..Len(extractRuns[r].imgs) :
           \A j \in 1..Len(extractRuns[r].results[i].underlinedSentences) :
             LET u == extractRuns[r].results[i].underlinedSentences[j]
             IN  Len(u) > 0 =>
                   \E k \in 1..Len(sentences') :
                     /\ sentences'[k].imageId = extractRuns[r].imgs[i]
                     /\ Includes(sentences'[k].content, u)
                     /\ sentences'[k].isUnderlined
                     /\ sentences'[k].selected]_vars

\* the paragraph without the first occurrence of u
RECURSIVE RemainderFrom(_, _, _)
RemainderFrom(p, u, i) ==
  IF i > Len(p) THEN p
  ELSE IF MatchAt(p, i, u)
       THEN SubSeq(p, 1, i - 1) \o SubSeq(p, i + Len(u), Len(p))
       ELSE RemainderFrom(p, u, i + 1)

\* one underlined sentence embedded in the single paragraph of the image,
\* with at least 10 characters of the paragraph left around it
EmbeddedUnderline(result) ==
  /\ Len(result.paragraphs) = 1
  /\ Len(result.underlinedSentences) = 1
  /\ Len(result.underlinedSentences[1]) > 0
  /\ Includes(result.paragraphs[1], result.underlinedSentences[1])
  /\ Len(Trim(RemainderFrom(result.paragraphs[1],
                            result.underlinedSentences[1], 1))) >= 10

SelectionTooSmall ==
  /\ ExtractSelectionGiven
  /\ (selectionRect[1].width < 20 \/ selectionRect[1].height < 20)

\* C13: a region extraction whose selection is narrower or lower than 20
\* display pixels is rejected before the image information, the crop or the
\* OCR is asked for, and leaves the candidates as they are: the call only
\* shows its alert, and no extraction in flight has such a selection.
C13_TooSmallRejected ==
  /\ [](\A k \in 1..Len(manualRuns) :
          manualRuns[k].rect.width >= 20 /\ manualRuns[k].rect.height >= 20)
  /\ [][(HandleExtractSelectionStart /\ SelectionTooSmall) =>
          /\ alert' = "selectionTooSmall"
          /\ UNCHANGED <<sentences, manualRuns, manualStarted,
                         isExtractingSelection, emitted, events,
                         selectionVars>>]_vars

\* a selection 30 wide and 10 high has just been rejected
C13_Witness ==
  /\ alert = "selectionTooSmall"
  /\ selectionRect # <<>>
  /\ selectionRect[1].width >= 20
  /\ selectionRect[1].height < 20
  /\ manualRuns = <<>>
  /\ manualStarted = 0
  /\ Len(sentences) > 0

\* C20: the selection rectangle is always normalized: while and after a
\* drag its width and height are not negative, and a move makes it the
\* rectangle whose corners are the start point and the pointer, whatever the
\* direction of the drag.
C20_RectNormalized ==
  /\ [](selectionRect # <<>> =>
          selectionRect[1].width >= 0 /\ selectionRect[1].height >= 0)
  /\ [][\A p \in TouchPoints :
          HandleTouchMove(p) =>
            LET r == selectionRect'[1]
            IN  /\ {r.x, r.x + r.width} = {startPoint[1].x, p.x}
                /\ {r.y, r.y + r.height} = {startPoint[1].y, p.y}
                /\ r.width >= 0
                /\ r.height >= 0]_vars

\* after a drag from (30,10) up and left to (0,0): {x:0, y:0, width:30,
\* height:10}
C20_Witness ==
  /\ startPoint = <<[x |-> 30, y |-> 10]>>
  /\ selectionRect = <<[x |-> 0, y |-> 0, width |-> 30, height |-> 10]>>
  /\ ~isSelecting

\* how many sentences processOCRText finds in the paragraphs of an answer
RECURSIVE RecognizedCount(_, _)
RecognizedCount(result, pIndex) ==
  IF pIndex > Len(result.paragraphs) THEN 0
  ELSE Len(processOCRText(result.paragraphs[pIndex]))
         + RecognizedCount(result, pIndex + 1)

RegionExtractionSucceeds(k, o, t) ==
  /\ HandleExtractSelectionFinish(k, o, t)
  /\ o.ok
  /\ Len(o.result.paragraphs) > 0

RegionExtractionFails(k, o, t) ==
  /\ HandleExtractSelectionFinish(k, o, t)
  /\ (~o.ok \/ Len(o.result.paragraphs) = 0)

\* C14: after a successful region extraction every candidate that was there
\* before is still there, with its id, content, selected and isUnderlined
\* and in the same relative order, and each recognized sentence is one more
\* candidate: none replaces an earlier candidate or merges with it, also
\* when the text is the same.
C14_ExistingCandidatesKept ==
  [][\A k \in 1..Len(manualRuns), o \in OcrOutcomes, t \in 0..MaxClock :
       RegionExtractionSucceeds(k, o, t) =>
         /\ SelectSeq(sentences', LAMBDA s : s.seq <= emitted) = sentences
         /\ Len(sentences') = Len(sentences) + RecognizedCount(o.result, 1)
         /\ \A i \in 1..Len(sentences') :
              sentences'[i].seq > emitted =>
                /\ sentences'[i].imageId = manualRuns[k].imageId
                /\ sentences'[i].selected]_vars

\* a region extraction has added a sentence whose text an earlier candidate
\* of the same image already had
C14_Witness ==
  /\ events = 2
  /\ \E i, j \in 1..Len(sentences) :
       /\ sentences[i].event = 2
       /\ sentences[j].event = 1
       /\ sentences[i].content = sentences[j].content
       /\ sentences[i].imageId = sentences[j].imageId

\* C15: when the OCR of the selected region returns no paragraph, or the
\* crop or the OCR call fails, no candidate is added, the candidates are
\* as they were, and the extracting flag is cleared.
C15_FailedExtractionChangesNothing ==
  [][\A k \in 1..Len(manualRuns), o \in OcrOutcomes, t \in 0..MaxClock :
       RegionExtractionFails(k, o, t) =>
         /\ sentences' = sentences
         /\ emitted' = emitted
         /\ ~isExtractingSelection']_vars

\* a region extraction has come back without text: the candidates of the
\* batch are all there is, and nothing is being extracted
C15_Witness ==
  /\ alert = "noText"
  /\ manualStarted = 1
  /\ manualRuns = <<>>
  /\ ~isExtractingSelection
  /\ events = 1
  /\ Len(sentences) > 0

(***************************************************************************)
(* Properties of the drag selection of ManualExtractScreen (checked under  *)
(* SpecDrag).                                                              *)
(***************************************************************************)
\* two closed axis-aligned rectangles, given by their corners, share a point
BoxesMeet(l1, t1, r1, b1, l2, t2, r2, b2) ==
  /\ Max(l1, l2) <= Min(r1, r2)
  /\ Max(t1, t2) <= Min(b1, b2)

\* C10: after every move of a drag the selected lines are exactly the lines
\* whose box meets the rectangle spanned by the point where the drag started
\* and the pointer's position, whatever moves came before.
C10_Claim ==
  (touch.down /\ touch.moved) =>
    \A i \in 1..Len(textLines) :
      textLines[i].selected =
        BoxesMeet(Min(touch.x0, touch.x0 + touch.dx),
                  Min(touch.y0, touch.y0 + touch.dy),
                  Max(touch.x0, touch.x0 + touch.dx),
                  Max(touch.y0, touch.y0 + touch.dy),
                  textLines[i].scaledBox.x,
                  textLines[i].scaledBox.y,
                  textLines[i].scaledBox.x + textLines[i].scaledBox.width,
                  textLines[i].scaledBox.y + textLines[i].scaledBox.height)

(***************************************************************************)
(* Properties of checkIntersection (checked under SpecGeom).               *)
(***************************************************************************)
GeoSelLeft == Min(geoSelStart.x, geoSelEnd.x)
GeoSelRight == Max(geoSelStart.x, geoSelEnd.x)
GeoSelTop == Min(geoSelStart.y, geoSelEnd.y)
GeoSelBottom == Max(geoSelStart.y, geoSelEnd.y)
GeoLineRight == geoLineBox.x + geoLineBox.width
GeoLineBottom == geoLineBox.y + geoLineBox.height

\* the line's box lies inside the selection rectangle
GeoContained ==
  /\ GeoSelLeft <= geoLineBox.x /\ GeoLineRight <= GeoSelRight
  /\ GeoSelTop <= geoLineBox.y /\ GeoLineBottom <= GeoSelBottom

\* the selection rectangle is one point, and the point is off the box
GeoPointOffBox ==
  /\ geoSelStart = geoSelEnd
  /\ \/ geoSelStart.x < geoLineBox.x \/ geoSelStart.x > GeoLineRight
     \/ geoSelStart.y < geoLineBox.y \/ geoSelStart.y > GeoLineBottom

\* C11: the intersection test selects a line exactly if not (selRight <
\* lineLeft or selLeft > lineRight or selBottom < lineTop or selTop >
\* lineBottom), with the selection's sides taken from the two drag points in
\* either order; so it selects every line whose box is inside the selection,
\* and none for a selection of zero area that touches no box.
C11_IntersectionTest ==
  geoCalled =>
    /\ geoResult = ~(GeoSelRight < geoLineBox.x \/ GeoSelLeft > GeoLineRight
                     \/ GeoSelBottom < geoLineBox.y \/ GeoSelTop > GeoLineBottom)
    /\ geoResult = checkIntersection(geoLineBox, geoSelEnd, geoSelStart)
    /\ geoResult = checkIntersection(geoLineBox,
                                     [x |-> geoSelEnd.x, y |-> geoSelStart.y],
                                     [x |-> geoSelStart.x, y |-> geoSelEnd.y])
    /\ GeoContained => geoResult
    /\ GeoPointOffBox => ~geoResult

\* a drag from the bottom right to the top left around a box: selected
C11_Witness ==
  /\ geoCalled
  /\ geoSelStart.x > geoSelEnd.x
  /\ geoSelStart.y > geoSelEnd.y
  /\ GeoContained
  /\ geoResult

(***************************************************************************)
(* Properties of the gestures of ManualExtractScreen (checked under        *)
(* SpecDrag).                                                              *)
(***************************************************************************)
\* C12: the start of a drag clears the selected flag of every text line,
\* however it had been set, before any selection of the new drag is
\* computed: from pointer down until the first move no line is selected,
\* and the lines themselves are the same.
C12_GrantClearsSelection ==
  /\ []((touch.down /\ ~touch.moved) =>
         \A i \in 1..Len(textLines) : ~textLines[i].selected)
  /\ [][\A p \in GrantPoints :
          OnPanResponderGrant(p) =>
            /\ Len(textLines') = Len(textLines)
            /\ \A i \in 1..Len(textLines) :
                 /\ textLines'[i].id = textLines[i].id
                 /\ textLines'[i].scaledBox = textLines[i].scaledBox
                 /\ ~textLines'[i].selected]_vars

\* a drag has started on lines of which some were selected
C12_Witness ==
  /\ touch.down
  /\ ~touch.moved
  /\ touch.hadSelection
  /\ Len(textLines) > 0
  /\ \A i \in 1..Len(textLines) : ~textLines[i].selected

(***************************************************************************)
(* Properties of performBatchStructuredOCR (checked under SpecBatch).      *)
(***************************************************************************)
\* where in batchLog the OCR call for image p finished, 0 if it has not
BatchFinishedAt(p) ==
  IF \E a \in 1..Len(batchLog) :
       batchLog[a].event \in {"ocrResolved", "ocrThrew"} /\ batchLog[a].current = p
  THEN CHOOSE a \in 1..Len(batchLog) :
         batchLog[a].event \in {"ocrResolved", "ocrThrew"} /\ batchLog[a].current = p
  ELSE 0

\* the value the returned Map has for a uri (the empty sequence if none)
BatchResultOf(uri) ==
  LET at == {e \in 1..Len(batchResults) : batchResults[e].key = uri}
  IN  IF at = {} THEN <<>> ELSE <<batchResults[CHOOSE e \in at : TRUE].value>>

\* C16: when the OCR call for one image fails, the batch call does not fail:
\* it goes on with the next image and returns, for every image, a result of
\* its own: the empty result (no paragraph, no underlined sentence, hence no
\* candidate) for an image whose call failed, and for every other image
\* what its own call answered.
C16_FailedImageIsolated ==
  /\ [](batchStage = "returned" =>
          /\ Len(batchResults) = Len(batchUris)
          /\ \A p \in 1..Len(batchUris) :
               /\ BatchFinishedAt(p) > 0
               /\ BatchResultOf(batchUris[p]) =
                    <<IF batchLog[BatchFinishedAt(p)].event = "ocrThrew"
                      THEN [paragraphs |-> <<>>, underlinedSentences |-> <<>>]
                      ELSE batchLog[BatchFinishedAt(p)].result>>)
  /\ [][\A o \in OcrOutcomes :
          (BatchCallDone(o) /\ ~o.ok) =>
            /\ batchStage' = "loop"
            /\ batchIndex' = batchIndex + 1
            /\ \A e \in 1..Len(batchResults) : batchResults'[e] = batchResults[e]]_vars
  /\ [](\A img \in ImageIds :
          ExtractImages(<<>>, <<img>>,
                        <<[paragraphs |-> <<>>, underlinedSentences |-> <<>>]>>,
                        1, 0, 1) = <<>>)

\* a batch of two has returned: the call for the first image threw, the
\* second image has the paragraph its call answered
C16_Witness ==
  /\ batchStage = "returned"
  /\ Len(batchUris) = 2
  /\ batchLog[BatchFinishedAt(1)].event = "ocrThrew"
  /\ BatchResultOf("uri1") = <<EmptyResult>>
  /\ BatchResultOf("uri2") # <<>>
  /\ Len(BatchResultOf("uri2")[1].paragraphs) > 0

\* C17: the images are processed one at a time in input order: the OCR call
\* for image i+1 starts only after the call for image i has finished, and
\* onProgress for image i is called after the OCR call for image i has
\* finished.
C17_Claim ==
  \A a \in 1..Len(batchLog) :
    /\ (batchLog[a].event = "ocrStarted" /\ batchLog[a].current > 1) =>
         (BatchFinishedAt(batchLog[a].current - 1) > 0
          /\ BatchFinishedAt(batchLog[a].current - 1) < a)
    /\ batchLog[a].event = "ocrStarted" =>
         \A b \in 1..Len(batchLog) :
           (batchLog[b].event = "ocrStarted" /\ b < a) =>
             batchLog[b].current < batchLog[a].current
    /\ batchLog[a].event = "onProgress" =>
         (BatchFinishedAt(batchLog[a].current) > 0
          /\ BatchFinishedAt(batchLog[a].current) < a)


\* ---------------------------------------------------------------------------
\* The batch shrinking under a running extraction (SpecStale)
\* ---------------------------------------------------------------------------

InBatch(img) == \E k \in 1..Len(images) : images[k] = img

OnlyCurrentImages(cands) ==
  \A k \in 1..Len(cands) : InBatch(cands[k].imageId)

\* an extraction that finishes in this step, and has run for a batch that is
\* no longer the batch of the store
StaleExtractionFinishes ==
  \E r \in 1..Len(extractRuns) :
    /\ extractRuns[r].imgs # images
    /\ \/ ExtractTextFinish(r)
       \/ \E t \in 0..MaxClock : ExtractTextDummyFinish(r, t)

\* C18: when an image is removed while the batch OCR is in flight, what an
\* extraction merges is checked against the batch of that moment, so the
\* candidate list it leaves holds no candidate of an image that is no longer
\* in the batch; and once every extraction has finished, the list of a
\* non-empty batch holds candidates of its images only, whichever extraction
\* finished last.
C18_Claim ==
  /\ []((extractRuns = <<>> /\ ~effectDue /\ images # <<>>)
          => OnlyCurrentImages(sentences))
  /\ [][StaleExtractionFinishes => OnlyCurrentImages(sentences')]_vars

\* the case of C18 has happened: an extraction is in flight for a batch that
\* has since lost an image
C18_StaleInFlight ==
  \E r \in 1..Len(extractRuns) :
    /\ Len(extractRuns[r].imgs) > Len(images)
    /\ Len(extractRuns[r].results) > 0


\* ---------------------------------------------------------------------------
\* parseGeminiResponse (SpecParse)
\* ---------------------------------------------------------------------------

RawResponse == Flatten(responseText)

ParsedResponse == JSONParse(ExtractJsonStr(RawResponse))

\* no structured value is to be had of the response: JSON.parse rejects the
\* text, or gives null, of which no field can be read
ResponseUnparseable ==
  ParsedResponse.threw \/ ParsedResponse.value.type = "null"

ArrayOrEmpty(v, got) ==
  /\ v.type = "array" => got = v.items
  /\ v.type # "array" => got = <<>>

\* C19: parseGeminiResponse returns a result for every response text.  A text
\* that cannot be parsed and is not blank gives exactly one paragraph, the
\* trimmed raw text, and no underlined sentence; a blank one gives the empty
\* result; of a parsed value, each of paragraphs and underlinedSentences is
\* taken when it is an array and is the empty list when it is not, whatever
\* the other field is.
C19_ParseFallback ==
  parseCalled =>
    /\ (ResponseUnparseable /\ Trim(RawResponse) # <<>>) =>
         /\ parseResult.paragraphs = <<Trim(RawResponse)>>
         /\ parseResult.underlinedSentences = <<>>
    /\ (ResponseUnparseable /\ Trim(RawResponse) = <<>>) =>
         parseResult = defaultResult
    /\ ~ResponseUnparseable =>
         /\ ArrayOrEmpty(ParsedResponse.value.paragraphs, parseResult.paragraphs)
         /\ ArrayOrEmpty(ParsedResponse.value.underlinedSentences,
                         parseResult.underlinedSentences)

\* a fenced block that is not JSON, with whitespace around the text: the
\* paragraph is the whole trimmed text, fences included
C19_Witness ==
  /\ parseCalled
  /\ ResponseUnparseable
  /\ JsonBlockMatch(Trim(RawResponse)).matched
  /\ RawResponse # Trim(RawResponse)
  /\ parseResult.paragraphs = <<Trim(RawResponse)>>


\* ---------------------------------------------------------------------------
\* The crop region (SpecCrop)
\* ---------------------------------------------------------------------------

\* n is the fraction a / b (b > 0) rounded to the nearest integer, a half
\* going up:  n - 1/2 <= a / b < n + 1/2
IsRoundOf(n, a, b) ==
  /\ 2 * b * n <= 2 * a + b
  /\ 2 * a + b < 2 * b * n + 2 * b

\* C21: for an image of W x H pixels displayed at w x h, the crop region of
\* the selection {x, y, width, height} has the width round(width * W / w) and
\* the height round(height * H / h), and its origin is the origin of the
\* selection times the same ratios, W / w for x and H / h for y, rounded.
C21_CropScaling ==
  cropCalled =>
    /\ IsRoundOf(cropRegion.width, cropSelection.width * cropImageInfo.width,
                 cropLayout.width)
    /\ IsRoundOf(cropRegion.height, cropSelection.height * cropImageInfo.height,
                 cropLayout.height)
    /\ IsRoundOf(cropRegion.originX, cropSelection.x * cropImageInfo.width,
                 cropLayout.width)
    /\ IsRoundOf(cropRegion.originY, cropSelection.y * cropImageInfo.height,
                 cropLayout.height)

\* a crop whose width was rounded up and whose two ratios differ
C21_Witness ==
  /\ cropCalled
  /\ cropRegion.width * cropLayout.width
       > cropSelection.width * cropImageInfo.width
  /\ cropImageInfo.width * cropLayout.height
       # cropImageInfo.height * cropLayout.width
  /\ cropSelection.x > 0


\* ---------------------------------------------------------------------------
\* Editing the candidate list (SpecEdit)
\* ---------------------------------------------------------------------------

\* C22: toggle(id) and editContent(id, text) are idempotent: the same call
\* applied again to the list it has just left leaves that list as it is.
C22_Claim ==
  [][/\ \A id \in DisplayedIds :
          HandleToggleSentence(id) => ToggleSentence(id, sentences') = sentences'
     /\ \A id \in DisplayedIds, content \in EditTexts :
          HandleEditSentence(id, content)
            => UpdateSentence(id, content, sentences') = sentences']_vars

\* the half of C22 that is about editContent
C22_EditIdempotent ==
  [][\A id \in DisplayedIds, content \in EditTexts :
       HandleEditSentence(id, content)
         => UpdateSentence(id, content, sentences') = sentences']_vars


\* every item of the grouped view is a candidate of the list as it is
GroupItemsAreCandidates ==
  \A g \in 1..Len(groupedSentences) :
    \A k \in 1..Len(groupedSentences[g].data) :
      \E i \in 1..Len(sentences) : sentences[i] = groupedSentences[g].data[k]

\* C23: isUnderlined of a candidate never changes after the candidate was
\* made: whatever step is taken (a toggle, an edit, a region extraction), a
\* candidate that is in the list before and after it, known by the number of
\* its creation, has the flag it had; and the grouped view shows the
\* candidates with the flags they have.
C23_UnderlinedImmutable ==
  /\ [](GroupItemsAreCandidates)
  /\ [][\A i \in 1..Len(sentences) : \A j \in 1..Len(sentences') :
          sentences[i].seq = sentences'[j].seq
            => sentences[i].isUnderlined = sentences'[j].isUnderlined]_vars

\* an edit has given a candidate that is not underlined the text of an
\* underlined sentence, and a region extraction has added candidates
C23_Witness ==
  /\ edits > 0
  /\ manualStarted > 0
  /\ \E i \in 1..Len(sentences) :
       sentences[i].content = WordC /\ ~sentences[i].isUnderlined
  /\ \E i \in 1..Len(sentences) : sentences[i].id[1] = "manual"


\* ---------------------------------------------------------------------------
\* Saving (SpecEdit)
\* ---------------------------------------------------------------------------

HasVisibleChar(text) == \E k \in 1..Len(text) : text[k] \notin Whitespace

\* the contents of the candidates of list that are selected and not blank,
\* in the order of the list
RECURSIVE WantedContents(_)
WantedContents(list) ==
  IF list = <<>> THEN <<>>
  ELSE (IF Head(list).selected /\ HasVisibleChar(Head(list).content)
        THEN <<Head(list).content>> ELSE <<>>)
       \o WantedContents(Tail(list))

ContentsOf(quotesData) == [k \in 1..Len(quotesData) |-> quotesData[k].content]

\* C25: a call of handleSave that goes on to persist takes exactly the
\* candidates that are selected and whose trimmed content is not empty, with
\* the content they have at that moment; what is handed to saveQuotes is the
\* list of such a call and is never empty; and resetCapture is called only in
\* the step in which saveQuotes has resolved.
C25_SaveHandsSelected ==
  /\ [](/\ \A n \in 1..Len(savedQuotes) : savedQuotes[n] # <<>>
        /\ captureResets <= savesSucceeded
        /\ savesSucceeded <= Len(savedQuotes))
  /\ [][/\ saveStarted' # saveStarted =>
             /\ Len(saveRuns') = Len(saveRuns) + 1
             /\ ContentsOf(saveRuns'[Len(saveRuns')].quotesData)
                  = WantedContents(sentences)
             /\ WantedContents(sentences) # <<>>
        /\ savedQuotes' # savedQuotes =>
             \E n \in 1..Len(saveRuns') :
               savedQuotes' = Append(savedQuotes, saveRuns'[n].quotesData)
        /\ captureResets' # captureResets => savesSucceeded' = savesSucceeded + 1
       ]_vars

\* a save has gone through after an edit or a toggle had taken a candidate
\* out of the list to save
C25_Witness ==
  /\ captureResets = 1
  /\ edits > 0
  /\ Len(savedQuotes) = 1
  /\ Len(savedQuotes[1]) < Len(sentences)
  /\ \E i \in 1..Len(sentences) : sentences[i].selected /\ ~HasVisibleChar(sentences[i].content)


\* ---------------------------------------------------------------------------
\* The grouped view (Spec)
\* ---------------------------------------------------------------------------

\* where the candidate made as number n lies in the list
PositionOf(n) == CHOOSE i \in 1..Len(sentences) : sentences[i].seq = n

BatchIndexOf(img) == CHOOSE i \in 1..Len(images) : images[i] = img

\* data lists exactly the candidates of img, the underlined ones first, each
\* of the two kinds in the order of the list
IsGroupOf(data, img) ==
  /\ \A k \in 1..Len(data) :
       /\ data[k].imageId = img
       /\ \E i \in 1..Len(sentences) : sentences[i] = data[k]
  /\ \A i \in 1..Len(sentences) :
       sentences[i].imageId = img
         => \E k \in 1..Len(data) : data[k].seq = sentences[i].seq
  /\ \A a \in 1..Len(data) : \A b \in 1..Len(data) :
       a < b =>
         /\ data[a].seq # data[b].seq
         /\ ~(~data[a].isUnderlined /\ data[b].isUnderlined)
         /\ data[a].isUnderlined = data[b].isUnderlined
              => PositionOf(data[a].seq) < PositionOf(data[b].seq)

\* C24: the grouped view has a group for an image of the batch exactly when
\* a candidate has the id of that image, the groups come in the order of the
\* batch, and each group lists exactly the candidates of its image, the
\* underlined ones first and otherwise in the order of the list.
C24_GroupedView ==
  /\ \A i \in 1..Len(images) :
       (\E g \in 1..Len(groupedSentences) : groupedSentences[g].imageId = images[i])
         <=> (\E k \in 1..Len(sentences) : sentences[k].imageId = images[i])
  /\ \A g \in 1..Len(groupedSentences) :
       /\ InBatch(groupedSentences[g].imageId)
       /\ IsGroupOf(groupedSentences[g].data, groupedSentences[g].imageId)
  /\ \A g \in 1..Len(groupedSentences) : \A h \in 1..Len(groupedSentences) :
       g < h => BatchIndexOf(groupedSentences[g].imageId)
                  < BatchIndexOf(groupedSentences[h].imageId)

\* two groups, one of them in another order than the list: a region
\* extraction has put candidates that are not underlined before underlined ones
C24_Witness ==
  /\ Len(groupedSentences) = 2
  /\ \E g \in 1..Len(groupedSentences) :
       \E a \in 1..Len(groupedSentences[g].data) :
         \E b \in 1..Len(groupedSentences[g].data) :
           /\ a < b
           /\ PositionOf(groupedSentences[g].data[a].seq)
                > PositionOf(groupedSentences[g].data[b].seq)


\* ---------------------------------------------------------------------------
\* The ids of the candidates (SpecRegions)
\* ---------------------------------------------------------------------------

\* C26: no two candidates of the list have the same id, whatever extractText
\* and the region extractions have done, two region extractions that end in
\* the same millisecond included.
C26_Claim ==
  \A i \in 1..Len(sentences) : \A j \in 1..Len(sentences) :
    i # j => sentences[i].id # sentences[j].id

\* the ids of one extraction are distinct among themselves: two candidates
\* with one id were made by two extractions
C26_SharedIdsAcrossExtractions ==
  \A i \in 1..Len(sentences) : \A j \in 1..Len(sentences) :
    (i # j /\ sentences[i].id = sentences[j].id)
      => sentences[i].event # sentences[j].event


\* ---------------------------------------------------------------------------
\* Blank entries of underlinedSentences (Spec)
\* ---------------------------------------------------------------------------

\* the result without the entries of underlinedSentences that are empty or
\* whitespace only
WithoutBlankUnderlined(result) ==
  [result EXCEPT !.underlinedSentences = SelectSeq(@, HasVisibleChar)]

\* what the screen shows of a list: contents, images and underline marks
ShownOf(list) ==
  [k \in 1..Len(list) |->
     [content |-> list[k].content, imageId |-> list[k].imageId,
      isUnderlined |-> list[k].isUnderlined]]

\* C27: an entry of underlinedSentences that is empty or whitespace only has
\* no effect: extractText and a region extraction leave the list they would
\* leave had the service's answers come without such entries (no candidate of
\* such an entry, no sentence marked as underlined because of it).
C27_Claim ==
  [][/\ \A r \in 1..Len(extractRuns) :
          ExtractTextFinish(r) =>
            ShownOf(sentences')
              = ShownOf(StructuredSentences(
                          extractRuns[r].imgs,
                          [i \in 1..Len(extractRuns[r].results) |->
                             WithoutBlankUnderlined(extractRuns[r].results[i])],
                          emitted, events + 1))
     /\ \A k \in 1..Len(manualRuns) : \A o \in OcrOutcomes : \A t \in 0..MaxClock :
          (HandleExtractSelectionFinish(k, o, t) /\ sentences' # sentences) =>
            ShownOf(sentences')
              = ShownOf(NewSentences(manualRuns[k].imageId,
                                     WithoutBlankUnderlined(o.result), t,
                                     emitted, events + 1)
                          \o sentences)]_vars

\* the half of C27 that is about candidates: none is made of a blank entry
C27_NoCandidateOfBlankEntry ==
  \A i \in 1..Len(sentences) : HasVisibleChar(sentences[i].content)


\* ---------------------------------------------------------------------------
\* The number of images of a capture session (SpecCapture)
\* ---------------------------------------------------------------------------

\* C28: the capture store never holds more than 10 images, whatever camera
\* captures, gallery picks, add-more picks and removals have been made.
C28_Claim == Len(images) <= MAX_IMAGES

\* what handleAddMore alone keeps: it never takes the store beyond 10 images
C28_AddMoreKeepsLimit ==
  [][\A n \in 0..MAX_IMAGES :
       (HandleAddMore(n) /\ n > 0) => Len(images') <= MAX_IMAGES]_vars


\* ---------------------------------------------------------------------------
\* The loading flag of the first extraction (SpecLoading)
\* ---------------------------------------------------------------------------

C30_Claim ==
  [][DeleteQuoteSettle(FALSE) => quotes' = quotesUndeleted]_vars

\* the part of it that the catch gives: the deleted note is in the list again
C30_DeletedQuoteIsBack ==
  [][DeleteQuoteSettle(FALSE) =>
       \E k \in 1..Len(quotes') : quotes'[k].id = deleteRuns[1].id]_vars

=============================================================================
